---- MODULE Spec2Model ----
(***************************************************************************)
(* VILS backend: the binary search engine (services/binary_search.py) and  *)
(* the task / build endpoints that drive it (api/tasks.py, api/builds.py,  *)
(* api/projects.py) over the relational schema of models/*.py.             *)
(*                                                                         *)
(* Tokens are those of auth/security.py, the authentication guard that of  *)
(* auth/dependencies.py, registration that of api/auth.py; the WebSocket   *)
(* connection manager is websocket.py, the build task                      *)
(* services/build_tasks.py, the sessions database/connection.py; the      *)
(* encryption service is auth/encryption.py, the registration body         *)
(* api/schemas.py UserCreate, the git tasks services/git_tasks.py.         *)
(*                                                                         *)
(* The specifications:                                                     *)
(*   SpecEngine      generate_candidates, is_complete, update_range        *)
(*                   applied to inputs drawn in Init;                      *)
(*   SpecProgress    two successive calculate_progress calls for one       *)
(*                   total_tags;                                           *)
(*   Spec            the database rows and the HTTP handlers acting on     *)
(*                   them, from an empty database;                         *)
(*   SpecRound       the handlers of one search round, under weak          *)
(*                   fairness;                                             *)
(*   SpecSelect      select-candidates requests served concurrently;       *)
(*   SpecBuilds      trigger, status and cancel of builds on stored        *)
(*                   iterations, with the service configuration changing;  *)
(*   SpecSubmissions feedback submitted request after request;             *)
(*   SpecFeedback    feedback requests served concurrently;                *)
(*   SpecAccess      every endpoint addressed by id, called by the owner   *)
(*                   and by another user;                                  *)
(*   SpecTokens      tokens issued, altered and verified over time;        *)
(*   SpecGuard       get_current_user on tokens, as accounts change;       *)
(*   SpecRegister    registrations served by two workers;                  *)
(*   SpecProjects    projects created by two owners;                       *)
(*   SpecImport      batches of tags imported into a project;              *)
(*   SpecCascade     tasks deleted with their sessions, iterations,        *)
(*                   build jobs and feedback;                              *)
(*   SpecSockets     connections registered, subscribed, broken and        *)
(*                   removed while messages are being sent;                *)
(*   SpecMessages    client messages handled on registered connections;    *)
(*   SpecRuns        run_build executed, failing and retried;              *)
(*   SpecSessions    sessions handed out to requests and background        *)
(*                   work;                                                 *)
(*   SpecCipher      strings and dicts encrypted under one master key and  *)
(*                   decrypted under the same or another;                  *)
(*   SpecSignup      registration bodies validated and users created;      *)
(*   SpecTerminal    tasks in every status: retrieval, selection and       *)
(*                   build triggers served while tasks are paused and      *)
(*                   resumed;                                              *)
(*   SpecUpdates     task, build and progress updates sent while           *)
(*                   connections come, subscribe and go;                   *)
(*   SpecGit         the git tasks run, failing and retried.               *)
(***************************************************************************)
EXTENDS Integers, Sequences, FiniteSets, TLC

VARIABLES
    e_good,       \* generate_candidates / is_complete / update_range: good_index
    e_bad,        \* ... bad_index
    e_op,         \* the engine method applied to them ("none" before the call)
    e_feedback,   \* update_range: the feedback dict, a function tag id -> verdict
    e_result,     \* what the method returned
    p_total,      \* calculate_progress: total_tags, fixed over the calls
    p_calls,      \* the calculate_progress calls made so far, oldest first
    tags,         \* rows of table tags
    tasks,        \* rows of table localization_tasks
    sessions,     \* rows of table task_sessions
    iterations,   \* rows of table task_iterations
    build_jobs,   \* rows of table build_jobs
    feedback,     \* rows of table user_feedback
    service_configs, \* active rows of table service_configs (build services)
    inflight,     \* requests that have read the database and not yet committed
    response,     \* the last HTTP response, with the request it answers
    token,        \* the JWT a client holds (payload and signature)
    now,          \* datetime.utcnow()
    verified,     \* the last verify_token call and what it returned
    users,        \* rows of table users
    projects,     \* rows of table projects
    branches,     \* rows of table branches
    active_connections, \* ConnectionManager: user id -> set of connections
    connection_info,    \* ConnectionManager: the dict's entries, in insertion order
    ws_state,     \* each WebSocket: new (not accepted), open, dead (send raises)
    sends,        \* the send coroutines suspended in await send_text
    finished,     \* the last manager call that returned or raised
    build_runs,   \* run_build: per build job, the row status and the Celery task
    event_loop,   \* whether the worker runs an asyncio event loop
    db_sessions,  \* per request or task, the database session it acquired
    crypto,       \* the last EncryptionService call: its keys, input and result
    signup,       \* the last UserCreate body validated: its password and the outcome
    update,       \* the send_*_update call in progress or the last one
    git_runs      \* per task of git_tasks.py: executions, retries, outcome

engineVars == <<e_good, e_bad, e_op, e_feedback, e_result>>
progressVars == <<p_total, p_calls>>
dbVars == <<tags, tasks, sessions, iterations, build_jobs, feedback>>
envVars == <<service_configs, inflight>>
apiVars == <<tags, tasks, sessions, iterations, build_jobs, feedback,
             service_configs, inflight, response>>
authVars == <<token, now, verified>>
userVars == <<users>>
projectVars == <<projects, branches>>
wsVars == <<active_connections, connection_info, ws_state, sends, finished>>
runVars == <<build_runs, event_loop>>
sessionVars == <<db_sessions>>
cryptoVars == <<crypto>>
signupVars == <<signup>>
updateVars == <<update>>
gitVars == <<git_runs>>
sideButUsers == <<projectVars, wsVars, runVars, sessionVars, cryptoVars, signupVars, updateVars, gitVars>>
sideButProjects == <<userVars, wsVars, runVars, sessionVars, cryptoVars, signupVars, updateVars, gitVars>>
sideButSockets == <<userVars, projectVars, runVars, sessionVars, cryptoVars, signupVars, updateVars, gitVars>>
sideButRuns == <<userVars, projectVars, wsVars, sessionVars, cryptoVars, signupVars, updateVars, gitVars>>
sideButSessions == <<userVars, projectVars, wsVars, runVars, cryptoVars, signupVars, updateVars, gitVars>>
sideButCrypto == <<userVars, projectVars, wsVars, runVars, sessionVars, signupVars, updateVars, gitVars>>
sideButSignup == <<userVars, projectVars, wsVars, runVars, sessionVars, cryptoVars, updateVars, gitVars>>
sideButUpdates == <<userVars, projectVars, wsVars, runVars, sessionVars, cryptoVars, signupVars, gitVars>>
sideButGit == <<userVars, projectVars, wsVars, runVars, sessionVars, cryptoVars, signupVars, updateVars>>
sideVars == <<userVars, projectVars, wsVars, runVars, sessionVars, cryptoVars, signupVars, updateVars, gitVars>>
vars == <<e_good, e_bad, e_op, e_feedback, e_result, p_total, p_calls, tags,
          tasks, sessions, iterations, build_jobs, feedback, service_configs,
          inflight, response, token, now, verified, users, projects,
          branches, active_connections, connection_info, ws_state, sends,
          finished, build_runs, event_loop, db_sessions, crypto, signup,
          update, git_runs>>

NULL == "NULL"

(***************************************************************************)
(* Bounds of the model.                                                    *)
(***************************************************************************)
MaxIndex == 24       \* engine inputs: good_index, bad_index in 0..MaxIndex
MaxProgIndex == 7    \* calculate_progress inputs: indices in 0..MaxProgIndex
MaxSeq == 2          \* imported tags: sequence_number in 1..MaxSeq, or NULL
MaxRequested == 6    \* select-candidates: 0..MaxRequested candidate indices
MaxInflight == 2     \* requests served concurrently: 1..MaxInflight
MaxClock == 3        \* the clock of the token model: 0..MaxClock

(***************************************************************************)
(* Program constants.                                                      *)
(***************************************************************************)
TargetCandidates == 10   \* "Generate exactly 10 points"; the small-range threshold
Sections == 11           \* "Divide the range into 11 sections"
MinTagsInRange == 3      \* "Need at least good, bad, and one in between"
MinSelection == 3        \* select-candidates: fewest candidate indices
MaxSelection == 5        \* select-candidates: most candidate indices

(***************************************************************************)
(* Sequence helpers (Python list operations).                              *)
(***************************************************************************)
Range(s) == {s[i] : i \in DOMAIN s}

\* candidates.sort(key=lambda x: x.position): a stable insertion sort.
RECURSIVE InsertPosition(_, _)
InsertPosition(x, s) ==
    IF s = <<>> THEN <<x>>
    ELSE IF x < s[Len(s)]
         THEN Append(InsertPosition(x, SubSeq(s, 1, Len(s) - 1)), s[Len(s)])
         ELSE Append(s, x)

RECURSIVE SortPositions(_)
SortPositions(s) ==
    IF s = <<>> THEN <<>>
    ELSE InsertPosition(s[Len(s)], SortPositions(SubSeq(s, 1, Len(s) - 1)))

(***************************************************************************)
(* BinarySearchEngine.  self.tags is a sequence of tag rows sorted by      *)
(* sequence number; Python position i is element i + 1 of the sequence.    *)
(* Indices are non-negative in every call the model makes (a negative      *)
(* index would wrap around in Python).                                     *)
(***************************************************************************)
\* Tag.sequence_number is nullable: the value standing for SQL NULL / None.
NoSeq == -1

\* find_tag_index returns None when no tag has the id.
NotFound == -1

\* (tag.sequence_number or 0): the sort key of __init__.
SeqOrZero(tag) == IF tag.sequence_number = NoSeq THEN 0 ELSE tag.sequence_number

\* sorted(tags, key=lambda x: x.sequence_number or 0): stable.
RECURSIVE InsertTag(_, _)
InsertTag(x, s) ==
    IF s = <<>> THEN <<x>>
    ELSE IF SeqOrZero(x) < SeqOrZero(s[Len(s)])
         THEN Append(InsertTag(x, SubSeq(s, 1, Len(s) - 1)), s[Len(s)])
         ELSE Append(s, x)

\* BinarySearchEngine.__init__: self.tags.
RECURSIVE EngineTags(_)
EngineTags(tagList) ==
    IF tagList = <<>> THEN <<>>
    ELSE InsertTag(tagList[Len(tagList)],
                   EngineTags(SubSeq(tagList, 1, Len(tagList) - 1)))

\* SearchCandidate(position=i, tag=TagInfo(id=str(self.tags[i].id), ...)).
Candidate(engineTags, i) == [position |-> i, tag |-> engineTags[i + 1].id]

RECURSIVE find_tag_index_from(_, _, _)
find_tag_index_from(engineTags, tag_id, i) ==
    IF i >= Len(engineTags) THEN NotFound
    ELSE IF engineTags[i + 1].id = tag_id THEN i
    ELSE find_tag_index_from(engineTags, tag_id, i + 1)

find_tag_index(engineTags, tag_id) == find_tag_index_from(engineTags, tag_id, 0)

\* Mutant of AllBetween: range(good_index + 1, bad_index - 1).
RECURSIVE AllBetween_StopsEarly(_, _)
AllBetween_StopsEarly(i, bad_index) ==
    IF i >= bad_index - 1 THEN <<>>
    ELSE <<i>> \o AllBetween_StopsEarly(i + 1, bad_index)

\* The small-range branch: every position of range(good_index + 1, bad_index).
RECURSIVE AllBetween(_, _)
AllBetween(i, bad_index) ==
    IF i >= bad_index THEN <<>> ELSE <<i>> \o AllBetween(i + 1, bad_index)

\* Mutant of IntervalPosition: interval = (bad - good) // 11, an integer.
IntervalPosition_IntegerInterval(good_index, bad_index, i) ==
    good_index + ((bad_index - good_index) \div Sections) * i

\* position = good_index + int(interval * i), interval = (bad - good) / 11.0.
\* The quotient is exact or at least 1/11 away from an integer, so the
\* float product truncates to the integer quotient.
IntervalPosition(good_index, bad_index, i) ==
    good_index + ((bad_index - good_index) * i) \div Sections

\* for i in range(1, 11): keep a position inside the range not yet present.
RECURSIVE EvenPositions(_, _, _, _)
EvenPositions(good_index, bad_index, i, acc) ==
    IF i > TargetCandidates THEN acc
    ELSE LET position == IntervalPosition(good_index, bad_index, i)
             keep == /\ position < bad_index
                     /\ position > good_index
                     /\ position \notin Range(acc)
         IN EvenPositions(good_index, bad_index, i + 1,
                          IF keep THEN Append(acc, position) ELSE acc)

\* for i in range(good_index + 1, bad_index): stop at 10, add unused positions.
RECURSIVE Backfill(_, _, _, _)
Backfill(i, bad_index, positions_used, acc) ==
    IF i >= bad_index \/ Len(acc) >= TargetCandidates THEN acc
    ELSE Backfill(i + 1, bad_index, positions_used,
                  IF i \notin positions_used THEN Append(acc, i) ELSE acc)

\* step = len / 10.0; candidates[int(i * step)] for i in range(10).
Resample(sorted) ==
    [i \in 1..TargetCandidates |->
        sorted[((i - 1) * Len(sorted)) \div TargetCandidates + 1]]

CandidatePositions(good_index, bad_index) ==
    LET range_size == bad_index - good_index - 1
    IN IF range_size <= TargetCandidates
       THEN AllBetween(good_index + 1, bad_index)
       ELSE LET first == SortPositions(
                             EvenPositions(good_index, bad_index, 1, <<>>))
            IN IF Len(first) < TargetCandidates /\ range_size > TargetCandidates
               THEN LET filled == SortPositions(
                                      Backfill(good_index + 1, bad_index,
                                               Range(first), first))
                    IN IF Len(filled) > TargetCandidates
                       THEN Resample(filled) ELSE filled
               ELSE first

generate_candidates(engineTags, good_index, bad_index) ==
    IF bad_index <= good_index
    THEN [error |-> "ValueError", candidates |-> <<>>]
    ELSE LET positions == CandidatePositions(good_index, bad_index)
         IN IF \E k \in DOMAIN positions : positions[k] >= Len(engineTags)
            THEN [error |-> "IndexError", candidates |-> <<>>]
            ELSE [error |-> "none",
                  candidates |-> [k \in DOMAIN positions |->
                                     Candidate(engineTags, positions[k])]]

\* Mutant of is_complete: bad_index - good_index <= 1.
is_complete_AtMostOne(good_index, bad_index) == bad_index - good_index <= 1

is_complete(good_index, bad_index) == bad_index - good_index = 1

\* max / min over the indices the feedback resolves, starting from the
\* state's own index.
Max(S) == CHOOSE x \in S : \A y \in S : y <= x
Min(S) == CHOOSE x \in S : \A y \in S : x <= y

VerdictIndices(engineTags, fb, verdict) ==
    {find_tag_index(engineTags, id) :
        id \in {d \in DOMAIN fb : fb[d] = verdict}} \ {NotFound}

\* Mutant of update_range: new_good / new_bad are taken from the feedback
\* alone whenever it resolves an index (max / min without the state's own).
update_range_FeedbackOnly(engineTags, good_index, bad_index, fb) ==
    LET working == VerdictIndices(engineTags, fb, "working")
        broken == VerdictIndices(engineTags, fb, "broken")
    IN <<IF working = {} THEN good_index ELSE Max(working),
         IF broken = {} THEN bad_index ELSE Min(broken)>>

update_range(engineTags, good_index, bad_index, fb) ==
    LET new_good == Max({good_index} \cup VerdictIndices(engineTags, fb, "working"))
        new_bad == Min({bad_index} \cup VerdictIndices(engineTags, fb, "broken"))
    IN <<new_good, new_bad>>

\* Mutant of calculate_progress: progress = (current_range / total_tags) * 100.
calculate_progress_NotInverted(good_index, bad_index, total_tags) ==
    LET current_range == bad_index - good_index - 1
    IN IF total_tags <= 1 THEN [num |-> 100, den |-> 1]
       ELSE IF current_range <= 0 THEN [num |-> 100, den |-> 1]
       ELSE IF current_range > total_tags THEN [num |-> 100, den |-> 1]
       ELSE [num |-> current_range * 100, den |-> total_tags]

\* progress = (1 - current_range / total_tags) * 100, clamped to [0, 100],
\* kept as the exact fraction num / den (den > 0).
calculate_progress(good_index, bad_index, total_tags) ==
    LET current_range == bad_index - good_index - 1
    IN IF total_tags <= 1 THEN [num |-> 100, den |-> 1]
       ELSE IF current_range <= 0 THEN [num |-> 100, den |-> 1]
       ELSE LET num == (total_tags - current_range) * 100
            IN IF num > 100 * total_tags THEN [num |-> 100, den |-> 1]
               ELSE IF num < 0 THEN [num |-> 0, den |-> 1]
               ELSE [num |-> num, den |-> total_tags]

(***************************************************************************)
(* Idle values of the variable groups a specification does not use.        *)
(***************************************************************************)
EngineIdle ==
    /\ e_good = 0 /\ e_bad = 0 /\ e_op = "none"
    /\ e_feedback = <<>> /\ e_result = NULL

ProgressIdle == p_total = 0 /\ p_calls = <<>>

NoRequest ==
    [op |-> "none", user |-> NULL, task |-> NULL, n |-> 0, code |-> 0,
     request |-> <<>>, build |-> NULL, external |-> {}, jobs |-> {}, rows |-> {},
     body |-> [candidates |-> <<>>, is_complete |-> FALSE,
               problematic_tag |-> NULL, iteration_number |-> 0]]

\* No token issued, no verify_token call made.
NoPayload == [sub |-> NULL, type |-> NULL, exp |-> 0, scopes |-> {}]

NoToken == [payload |-> NoPayload, signature |-> [key |-> NULL, over |-> NoPayload]]

NoVerification ==
    [token |-> NoToken, token_type |-> NULL, at |-> 0, result |-> [username |-> NULL]]

AuthIdle == token = NoToken /\ now = 0 /\ verified = NoVerification

UsersIdle == users = {}

ProjectsIdle == projects = {} /\ branches = {}

\* The WebSocket objects handed to the manager.
Sockets == {"w1", "w2"}

\* An inbound or outbound WebSocket message: its type, and the key and the
\* timestamp it carries (NULL and 0 when it carries none).
Message(type, key, timestamp) == [type |-> type, key |-> key, timestamp |-> timestamp]

\* No manager call has finished.
NoSend ==
    [kind |-> "none", user |-> NULL, key |-> NULL, ws |-> NULL, targeted |-> {},
     delivered |-> {}, dead |-> {}, outcome |-> NULL,
     message |-> Message(NULL, NULL, 0), replies |-> <<>>]

\* ConnectionManager.__init__: both dicts empty; no socket accepted.
SocketsIdle ==
    /\ active_connections = <<>>
    /\ connection_info = <<>>
    /\ ws_state = [ws \in Sockets |-> "new"]
    /\ sends = {}
    /\ finished = NoSend

\* The build jobs given to run_build.
RunJobs == {"b1", "b2"}

\* A build job whose run_build task is queued and has not run: the row is
\* pending, request.retries is 0.
NotStarted ==
    [status |-> "pending", phase |-> "queued", retries |-> 0, delay |-> 0,
     wait |-> 0, executions |-> 0]

RunsIdle == build_runs = [j \in RunJobs |-> NotStarted] /\ event_loop = TRUE

\* The requests and tasks that acquire a database session.
Requests == {"r1", "r2"}

\* No session acquired: the calls made on the session so far, whether it
\* holds a transaction, and how the request that owns it got on.
NoSession ==
    [kind |-> "none", phase |-> "idle", outcome |-> NULL, in_transaction |-> FALSE,
     statements |-> 0, commits |-> 0, rollbacks |-> 0, closes |-> 0]

SessionsIdle == db_sessions = [r \in Requests |-> NoSession]

\* No EncryptionService method has been called.
NoCiphertext == [key |-> <<>>, iv |-> 0, data |-> <<>>, doc |-> <<>>]
NoCipherCall ==
    [op |-> "none", master_key |-> <<>>, other_key |-> <<>>, plaintext |-> <<>>,
     data |-> <<>>, token |-> NoCiphertext, error |-> "none", text |-> <<>>,
     doc |-> {}]

CryptoIdle == crypto = NoCipherCall

\* A password, as far as validate_password looks at it: its length, the
\* number of its characters with isdigit() and of those with isupper().
Password(length, digits, uppers) ==
    [length |-> length, digits |-> digits, uppers |-> uppers]

\* No registration body has been validated.
NoSignup == [password |-> Password(0, 0, 0), error |-> "none"]

SignupIdle == signup = NoSignup

\* No send_task_update, send_build_update or send_progress_update call has
\* been made.  Of a call: the message type, the task and the user it is
\* for; where it is (suspended in the send of loop "personal" or
\* "broadcast", "returned", "raised"); the connection whose send_text is
\* awaited; the copy of the user's set and what is left of it; the dict
\* entries the broadcast loop has passed and the dict's size when the loop
\* began; the connections the broadcast loop found subscribed; the
\* connections send_text succeeded on, in order, and those it raised on in
\* the running loop.
NoUpdate ==
    [kind |-> "none", task_id |-> NULL, user |-> NULL, phase |-> "none",
     ws |-> NULL, personal |-> {}, remaining |-> {}, visited |-> {}, size |-> 0,
     subscribed |-> {}, received |-> <<>>, dead |-> {}]

UpdatesIdle == update = NoUpdate

\* The Celery tasks of services/git_tasks.py.
GitTasks == {"fetch_commit_list", "validate_commit", "get_commit_diff",
             "analyze_repository"}

\* A task that was not submitted.  Of a task: where it is ("queued" until
\* its countdown has run out, "done"), how often its body has run,
\* self.request.retries, the seconds left until the retry is due, the
\* countdowns given to self.retry so far, what the last run of the body met
\* and what the task ended with.
NotSubmitted ==
    [status |-> "none", executions |-> 0, retries |-> 0, countdown |-> 0,
     delays |-> <<>>, outcome |-> "none", result |-> "none"]

GitIdle == git_runs = [name \in GitTasks |-> NotSubmitted]

SideIdle == UsersIdle /\ ProjectsIdle /\ SocketsIdle /\ RunsIdle /\ SessionsIdle /\ CryptoIdle /\ SignupIdle /\ UpdatesIdle /\ GitIdle

ApiIdle ==
    /\ tags = {} /\ tasks = {} /\ sessions = {} /\ iterations = {}
    /\ build_jobs = {} /\ feedback = {}
    /\ service_configs = {} /\ inflight = {}
    /\ response = NoRequest

(***************************************************************************)
(* SpecEngine: one engine over MaxIndex + 1 tags, the tag at position i    *)
(* having id i + 1 and sequence number i + 1; id 0 is no tag's id.         *)
(***************************************************************************)
Indices == 0..MaxIndex

FixtureTags == [i \in 1..(MaxIndex + 1) |-> [id |-> i, sequence_number |-> i]]

Verdicts == {"working", "broken", "inconclusive"}

\* Ids a feedback dict may mention: no tag, and five tags spread over the list.
FeedbackIds == {0} \cup {1 + (k * MaxIndex) \div 4 : k \in 0..4}

\* Feedback dicts with at most two entries.
FeedbackMaps ==
    UNION {[D -> Verdicts] : D \in {X \in SUBSET FeedbackIds : Cardinality(X) <= 2}}

InitEngine ==
    /\ e_good \in Indices
    /\ e_bad \in Indices
    /\ e_op = "none"
    /\ e_feedback = <<>>
    /\ e_result = NULL
    /\ ProgressIdle
    /\ ApiIdle
    /\ AuthIdle
    /\ SideIdle

GenerateCandidates ==
    /\ e_op = "none"
    /\ e_op' = "generate_candidates"
    /\ e_result' = generate_candidates(EngineTags(FixtureTags), e_good, e_bad)
    /\ UNCHANGED <<e_good, e_bad, e_feedback, progressVars, apiVars, authVars, sideVars>>

IsComplete ==
    /\ e_op = "none"
    /\ e_op' = "is_complete"
    /\ e_result' = is_complete(e_good, e_bad)
    /\ UNCHANGED <<e_good, e_bad, e_feedback, progressVars, apiVars, authVars, sideVars>>

UpdateRange ==
    /\ e_op = "none"
    /\ \E fb \in FeedbackMaps :
        /\ e_feedback' = fb
        /\ e_result' = update_range(EngineTags(FixtureTags), e_good, e_bad, fb)
    /\ e_op' = "update_range"
    /\ UNCHANGED <<e_good, e_bad, progressVars, apiVars, authVars, sideVars>>

NextEngine == GenerateCandidates \/ IsComplete \/ UpdateRange

SpecEngine == InitEngine /\ [][NextEngine]_vars

(***************************************************************************)
(* SpecProgress: calculate_progress called twice for one total_tags.       *)
(***************************************************************************)
ProgIndices == 0..MaxProgIndex

InitProgress ==
    /\ p_total \in (-1)..(MaxProgIndex + 2)
    /\ p_calls = <<>>
    /\ EngineIdle
    /\ ApiIdle
    /\ AuthIdle
    /\ SideIdle

CalculateProgress ==
    /\ Len(p_calls) < 2
    /\ \E g \in ProgIndices, b \in ProgIndices :
        p_calls' = Append(p_calls,
                          [good_index |-> g, bad_index |-> b,
                           progress |-> calculate_progress(g, b, p_total)])
    /\ UNCHANGED <<p_total, engineVars, apiVars, authVars, sideVars>>

NextProgress == CalculateProgress

SpecProgress == InitProgress /\ [][NextProgress]_vars

(***************************************************************************)
(* The database and the HTTP handlers.  Users, the project and its         *)
(* branches are fixed rows: alice owns project p1 with branches main and   *)
(* dev; bob owns nothing.  A row's uuid is a name of the model: tags of    *)
(* one project have unique names (uq_tag_project_name), so a tag's id is   *)
(* its name; a task id freed by delete_task, which cascades to every       *)
(* child row, is taken again by the next create_task.                      *)
(***************************************************************************)
Users == {"alice", "bob"}

Projects == {[id |-> "p1", created_by |-> "alice"]}

Branches == {[id |-> "main", project_id |-> "p1"],
             [id |-> "dev", project_id |-> "p1"]}

TagNames == {"v1", "v2", "v3"}

SeqNumbers == {NoSeq} \cup 1..MaxSeq

TaskIds == {"t1"}

IterationIds == {"i1"}

BuildIds == {"b1", "b2", "b3"}

\* An active ServiceConfig row of type build_service.  usable: its
\* config_data holds what BuildServiceFactory.create_service reads
\* (create_service raises KeyError otherwise).
ServiceConfigRow(service_name, usable) ==
    [service_name |-> service_name, usable |-> usable]

JenkinsConfig == ServiceConfigRow("jenkins", TRUE)

\* uq_service_type_name: UniqueConstraint("service_type", "service_name")
uq_service_type_name(rows) ==
    \A x, y \in rows : x.service_name = y.service_name => x = y

\* The services with an active ServiceConfig row; the request schema admits
\* jenkins, github_actions and gitlab_ci.
ActiveBuildServices == {c.service_name : c \in service_configs}

RequestedBuildServices == {"jenkins", "gitlab_ci"}

NoBody == [candidates |-> <<>>, is_complete |-> FALSE, problematic_tag |-> NULL,
           iteration_number |-> 0]

\* The response to a request: the endpoint, the caller, the task addressed,
\* the size of the request's list (select-candidates), the HTTP status; for
\* create_task also the request's project, branch, good and bad tag names;
\* for the build endpoints the build id of the path, the calls made to the
\* build service while the request was served and the build job rows returned.
Reply(op, user, task, n, code, body) ==
    [op |-> op, user |-> user, task |-> task, n |-> n, code |-> code,
     request |-> <<>>, build |-> NULL, external |-> {}, jobs |-> {}, rows |-> {},
     body |-> body]

CreateReply(user, task, code, project_id, branch_id, good_tag_name, bad_tag_name) ==
    [Reply("create_task", user, task, 0, code, NoBody)
        EXCEPT !.request = <<project_id, branch_id, good_tag_name, bad_tag_name>>]

\* db.query(Project).filter(id == ..., created_by == current_user.id).first()
OwnedProject(u, project_id) ==
    \E pr \in Projects : pr.id = project_id /\ pr.created_by = u

\* db.query(Branch).filter(id == ..., project_id == ...).first()
BranchOfProject(branch_id, project_id) ==
    \E br \in Branches : br.id = branch_id /\ br.project_id = project_id

\* db.query(Tag).filter(name == ..., project_id == ..., branch_id == ...)
TagsNamed(name, project_id, branch_id) ==
    {tg \in tags : /\ tg.name = name
                   /\ tg.project_id = project_id
                   /\ tg.branch_id = branch_id}

\* db.query(LocalizationTask).filter(id == task_id, user_id == current_user.id)
\* Mutant of OwnedTasks: the task of that id, whoever owns it.
OwnedTasks_AnyUser(u, task_id) == {tk \in tasks : tk.id = task_id}

OwnedTasks(u, task_id) == {tk \in tasks : tk.id = task_id /\ tk.user_id = u}

\* SQL comparison of two nullable integers: NULL compares as unknown, and a
\* filter keeps only rows whose condition is true.
SqlGe(a, b) == a # NoSeq /\ b # NoSeq /\ a >= b

SqlLe(a, b) == a # NoSeq /\ b # NoSeq /\ a <= b

\* Mutant of TagsInRange: the branch filter is left out.
TagsInRange_AnyBranch(project_id, branch_id, good_seq, bad_seq) ==
    {tg \in tags : /\ tg.project_id = project_id
                   /\ SqlGe(tg.sequence_number, good_seq)
                   /\ SqlLe(tg.sequence_number, bad_seq)}

\* The tags of a project and branch with good_seq <= sequence_number <= bad_seq.
TagsInRange(project_id, branch_id, good_seq, bad_seq) ==
    {tg \in tags : /\ tg.project_id = project_id
                   /\ tg.branch_id = branch_id
                   /\ SqlGe(tg.sequence_number, good_seq)
                   /\ SqlLe(tg.sequence_number, bad_seq)}

\* The row of a tag id (task.good_tag, task.bad_tag).
TagRow(tag_id) == CHOOSE tg \in tags : tg.id = tag_id

\* uq_tag_project_name: UniqueConstraint("project_id", "name").
uq_tag_project_name(rows) ==
    \A x, y \in rows : (x.project_id = y.project_id /\ x.name = y.name) => x = y

(***************************************************************************)
(* POST /projects/{project_id}/branches/{branch_id}/tags/import with one   *)
(* tag descriptor {name, sequence_number}.                                 *)
(***************************************************************************)
ImportTags(u, project_id, branch_id, name, seq) ==
    /\ IF ~OwnedProject(u, project_id) \/ ~BranchOfProject(branch_id, project_id)
       THEN /\ response' = Reply("import_tags", u, NULL, 0, 404, NoBody)
            /\ UNCHANGED tags
       ELSE IF TagsNamed(name, project_id, branch_id) # {}
       THEN \* skipped
            /\ response' = Reply("import_tags", u, NULL, 0, 200, NoBody)
            /\ UNCHANGED tags
       ELSE LET row == [id |-> name, project_id |-> project_id,
                        branch_id |-> branch_id, name |-> name,
                        sequence_number |-> seq]
            IN IF uq_tag_project_name(tags \cup {row})
               THEN /\ tags' = tags \cup {row}
                    /\ response' = Reply("import_tags", u, NULL, 1, 200, NoBody)
               ELSE \* db.commit() raises IntegrityError
                    /\ response' = Reply("import_tags", u, NULL, 0, 500, NoBody)
                    /\ UNCHANGED tags
    /\ UNCHANGED <<tasks, sessions, iterations, build_jobs, feedback>>
    /\ UNCHANGED <<authVars, sideVars, engineVars, progressVars, envVars>>

(***************************************************************************)
(* POST /tasks/                                                            *)
(***************************************************************************)
\* (good_tag.sequence_number or 0) >= (bad_tag.sequence_number or 0)
WrongTagOrder(good_tag, bad_tag) == SeqOrZero(good_tag) >= SeqOrZero(bad_tag)

\* check_different_tags: CheckConstraint("bad_tag_id != good_tag_id").
check_different_tags(row) == row.bad_tag_id # row.good_tag_id

CreateTask(u, project_id, branch_id, good_tag_name, bad_tag_name) ==
    /\ {i \in TaskIds : \A tk \in tasks : tk.id # i} # {}
    /\ LET id == CHOOSE i \in TaskIds : \A tk \in tasks : tk.id # i
           good == TagsNamed(good_tag_name, project_id, branch_id)
           bad == TagsNamed(bad_tag_name, project_id, branch_id)
       IN IF \/ ~OwnedProject(u, project_id)
             \/ ~BranchOfProject(branch_id, project_id)
             \/ good = {}
             \/ bad = {}
          THEN /\ response' = CreateReply(u, NULL, 404, project_id, branch_id,
                                          good_tag_name, bad_tag_name)
               /\ UNCHANGED <<tasks, sessions>>
          ELSE LET good_tag == CHOOSE tg \in good : TRUE
                   bad_tag == CHOOSE tg \in bad : TRUE
                   total_tags == Cardinality(
                       TagsInRange(project_id, branch_id,
                                   good_tag.sequence_number,
                                   bad_tag.sequence_number))
                   task == [id |-> id, user_id |-> u,
                            project_id |-> project_id, branch_id |-> branch_id,
                            good_tag_id |-> good_tag.id, bad_tag_id |-> bad_tag.id,
                            status |-> "active",
                            total_tags_in_range |-> total_tags,
                            current_iteration |-> 0,
                            final_problematic_tag_id |-> NULL,
     resolution_notes |-> NULL]
                   session == [task_id |-> id,
                               current_range_start |-> 0,
                               current_range_end |-> total_tags - 1]
               IN IF WrongTagOrder(good_tag, bad_tag)
                  THEN /\ response' = CreateReply(u, NULL, 400, project_id, branch_id,
                                                  good_tag_name, bad_tag_name)
                       /\ UNCHANGED <<tasks, sessions>>
                  ELSE IF ~check_different_tags(task)
                  THEN /\ response' = CreateReply(u, NULL, 500, project_id, branch_id,
                                                  good_tag_name, bad_tag_name)
                       /\ UNCHANGED <<tasks, sessions>>
                  ELSE /\ tasks' = tasks \cup {task}
                       /\ sessions' = sessions \cup {session}
                       /\ response' = CreateReply(u, id, 201, project_id, branch_id,
                                                  good_tag_name, bad_tag_name)
    /\ UNCHANGED <<tags, iterations, build_jobs, feedback>>
    /\ UNCHANGED <<authVars, sideVars, engineVars, progressVars, envVars>>

(***************************************************************************)
(* PUT /tasks/{task_id}/pause, PUT /tasks/{task_id}/resume,                *)
(* DELETE /tasks/{task_id}                                                 *)
(***************************************************************************)
\* Mutant of CanPause: any task that is not already paused can be paused.
CanPause_NotPaused(task) == task.status # "paused"

\* pause_task: if task.status != "active": raise 400.
CanPause(task) == task.status = "active"

\* resume_task: if task.status != "paused": raise 400.
CanResume(task) == task.status = "paused"

SetStatus(task, status) == [task EXCEPT !.status = status]

PauseTask(u, task_id) ==
    /\ IF OwnedTasks(u, task_id) = {}
       THEN /\ response' = Reply("pause_task", u, task_id, 0, 404, NoBody)
            /\ UNCHANGED tasks
       ELSE LET task == CHOOSE tk \in OwnedTasks(u, task_id) : TRUE
            IN IF ~CanPause(task)
               THEN /\ response' = Reply("pause_task", u, task_id, 0, 400, NoBody)
                    /\ UNCHANGED tasks
               ELSE /\ tasks' = (tasks \ {task}) \cup {SetStatus(task, "paused")}
                    /\ response' = Reply("pause_task", u, task_id, 0, 200, NoBody)
    /\ UNCHANGED <<tags, sessions, iterations, build_jobs, feedback>>
    /\ UNCHANGED <<authVars, sideVars, engineVars, progressVars, envVars>>

ResumeTask(u, task_id) ==
    /\ IF OwnedTasks(u, task_id) = {}
       THEN /\ response' = Reply("resume_task", u, task_id, 0, 404, NoBody)
            /\ UNCHANGED tasks
       ELSE LET task == CHOOSE tk \in OwnedTasks(u, task_id) : TRUE
            IN IF ~CanResume(task)
               THEN /\ response' = Reply("resume_task", u, task_id, 0, 400, NoBody)
                    /\ UNCHANGED tasks
               ELSE /\ tasks' = (tasks \ {task}) \cup {SetStatus(task, "active")}
                    /\ response' = Reply("resume_task", u, task_id, 0, 200, NoBody)
    /\ UNCHANGED <<tags, sessions, iterations, build_jobs, feedback>>
    /\ UNCHANGED <<authVars, sideVars, engineVars, progressVars, envVars>>

\* Mutant of DeleteTask: the feedback relationship does not cascade.
DeleteTask_KeepsFeedback(u, task_id) ==
    /\ IF OwnedTasks(u, task_id) = {}
       THEN /\ response' = Reply("delete_task", u, task_id, 0, 404, NoBody)
            /\ UNCHANGED <<tasks, sessions, iterations, build_jobs, feedback>>
       ELSE /\ tasks' = {tk \in tasks : tk.id # task_id}
            /\ sessions' = {x \in sessions : x.task_id # task_id}
            /\ iterations' = {x \in iterations : x.task_id # task_id}
            /\ build_jobs' = {x \in build_jobs : x.task_id # task_id}
            /\ UNCHANGED feedback
            /\ response' = Reply("delete_task", u, task_id, 0, 200, NoBody)
    /\ UNCHANGED tags
    /\ UNCHANGED <<authVars, sideVars, engineVars, progressVars, envVars>>

\* db.delete(task): cascade="all, delete-orphan" on iterations, build_jobs,
\* feedback and session.
DeleteTask(u, task_id) ==
    /\ IF OwnedTasks(u, task_id) = {}
       THEN /\ response' = Reply("delete_task", u, task_id, 0, 404, NoBody)
            /\ UNCHANGED <<tasks, sessions, iterations, build_jobs, feedback>>
       ELSE /\ tasks' = {tk \in tasks : tk.id # task_id}
            /\ sessions' = {x \in sessions : x.task_id # task_id}
            /\ iterations' = {x \in iterations : x.task_id # task_id}
            /\ build_jobs' = {x \in build_jobs : x.task_id # task_id}
            /\ feedback' = {x \in feedback : x.task_id # task_id}
            /\ response' = Reply("delete_task", u, task_id, 0, 200, NoBody)
    /\ UNCHANGED tags
    /\ UNCHANGED <<authVars, sideVars, engineVars, progressVars, envVars>>

(***************************************************************************)
(* GET /tasks/{task_id}/candidates                                         *)
(***************************************************************************)
\* .order_by(Tag.sequence_number).all(): the rows in ascending sequence
\* number; rows with equal numbers come in an order the database chooses.
OrderedBySeq(rows) ==
    {order \in [1..Cardinality(rows) -> rows] :
        /\ \A i, j \in DOMAIN order : i # j => order[i] # order[j]
        /\ \A i, j \in DOMAIN order :
              i < j => order[i].sequence_number <= order[j].sequence_number}

\* Mutant of CompletedTagIndex: the tag at good_index is recorded.
CompletedTagIndex_Good(good_index, bad_index) == good_index

\* task.final_problematic_tag_id = tags[bad_index].id
CompletedTagIndex(good_index, bad_index) == bad_index

SessionsOf(task_id) == {x \in sessions : x.task_id = task_id}

GetCandidates(u, task_id) ==
    /\ IF OwnedTasks(u, task_id) = {}
       THEN /\ response' = Reply("get_candidates", u, task_id, 0, 404, NoBody)
            /\ UNCHANGED <<tasks, sessions>>
       ELSE LET task == CHOOSE tk \in OwnedTasks(u, task_id) : TRUE
            IN IF task.status # "active"
               THEN /\ response' = Reply("get_candidates", u, task_id, 0, 400, NoBody)
                    /\ UNCHANGED <<tasks, sessions>>
               ELSE \E order \in OrderedBySeq(
                        TagsInRange(task.project_id, task.branch_id,
                                    TagRow(task.good_tag_id).sequence_number,
                                    TagRow(task.bad_tag_id).sequence_number)) :
                    IF Len(order) < MinTagsInRange
                    THEN /\ response' = Reply("get_candidates", u, task_id, 0, 400, NoBody)
                         /\ UNCHANGED <<tasks, sessions>>
                    ELSE LET engineTags == EngineTags(order)
                             stored == SessionsOf(task_id)
                             session ==
                                 IF stored = {}
                                 THEN [task_id |-> task_id,
                                       current_range_start |-> 0,
                                       current_range_end |-> Len(order) - 1]
                                 ELSE CHOOSE x \in stored : TRUE
                             good_index == session.current_range_start
                             bad_index == session.current_range_end
                             final == CompletedTagIndex(good_index, bad_index)
                             generated == generate_candidates(engineTags, good_index, bad_index)
                         IN \* the initialised session is committed on its own
                            /\ sessions' = sessions \cup {session}
                            /\ IF is_complete(good_index, bad_index)
                               THEN IF final < 0 \/ final >= Len(order)
                                    THEN \* IndexError before the commit
                                         /\ response' = Reply("get_candidates", u, task_id,
                                                              0, 500, NoBody)
                                         /\ UNCHANGED tasks
                                    ELSE /\ tasks' = (tasks \ {task}) \cup
                                            {[task EXCEPT
                                                !.status = "completed",
                                                !.final_problematic_tag_id = order[final + 1].id]}
                                         /\ response' = Reply("get_candidates", u, task_id, 0, 200,
                                               [candidates |-> <<>>,
                                                is_complete |-> TRUE,
                                                problematic_tag |-> order[final + 1].id,
                                                iteration_number |-> task.current_iteration])
                               ELSE IF generated.error # "none"
                               THEN /\ response' = Reply("get_candidates", u, task_id,
                                                         0, 500, NoBody)
                                    /\ UNCHANGED tasks
                               ELSE /\ response' = Reply("get_candidates", u, task_id, 0, 200,
                                          [candidates |-> generated.candidates,
                                           is_complete |-> FALSE,
                                           problematic_tag |-> NULL,
                                           iteration_number |-> task.current_iteration + 1])
                                    /\ UNCHANGED tasks
    /\ UNCHANGED <<tags, iterations, build_jobs, feedback>>
    /\ UNCHANGED <<authVars, sideVars, engineVars, progressVars, envVars>>

(***************************************************************************)
(* POST /tasks/{task_id}/select-candidates with n candidate indices        *)
(***************************************************************************)
\* CandidateSelection.candidate_indices: Field(..., min_items=3, max_items=5)
SchemaAcceptsSelection(n) == n >= MinSelection /\ n <= MaxSelection

\* if len(selection.candidate_indices) < 3 or len(...) > 5: raise 400
HandlerRejectsSelection(n) == n < MinSelection \/ n > MaxSelection

\* check_range_valid: CheckConstraint("search_range_end > search_range_start")
check_range_valid(row) == row.search_range_end > row.search_range_start

\* ix_iterations_task_number: unique (task_id, iteration_number)
ix_iterations_task_number(rows) ==
    \A x, y \in rows :
        (x.task_id = y.task_id /\ x.iteration_number = y.iteration_number) => x = y

\* NewIteration numbered with the counter as read, not the counter plus one.
NewIteration_NumberedByCounter(id, task, n) ==
    [id |-> id, task_id |-> task.id,
     iteration_number |-> task.current_iteration,
     search_range_start |-> 0,
     search_range_end |-> 0,
     selected_count |-> n]

\* TaskIteration(task_id=..., iteration_number=task.current_iteration + 1,
\*               search_range_start=0, search_range_end=0, ...)
NewIteration(id, task, n) ==
    [id |-> id, task_id |-> task.id,
     iteration_number |-> task.current_iteration + 1,
     search_range_start |-> 0,
     search_range_end |-> 0,
     selected_count |-> n]

SelectCandidates(u, task_id, n) ==
    /\ {i \in IterationIds : \A it \in iterations : it.id # i} # {}
    /\ IF ~SchemaAcceptsSelection(n)
       THEN /\ response' = Reply("select_candidates", u, task_id, n, 422, NoBody)
            /\ UNCHANGED <<tasks, iterations>>
       ELSE IF OwnedTasks(u, task_id) = {}
       THEN /\ response' = Reply("select_candidates", u, task_id, n, 404, NoBody)
            /\ UNCHANGED <<tasks, iterations>>
       ELSE LET task == CHOOSE tk \in OwnedTasks(u, task_id) : TRUE
                id == CHOOSE i \in IterationIds : \A it \in iterations : it.id # i
                iteration == NewIteration(id, task, n)
            IN IF task.status # "active" \/ HandlerRejectsSelection(n)
               THEN /\ response' = Reply("select_candidates", u, task_id, n, 400, NoBody)
                    /\ UNCHANGED <<tasks, iterations>>
               ELSE IF /\ check_range_valid(iteration)
                       /\ ix_iterations_task_number(iterations \cup {iteration})
               THEN /\ iterations' = iterations \cup {iteration}
                    /\ tasks' = (tasks \ {task}) \cup
                          {[task EXCEPT !.current_iteration = @ + 1]}
                    /\ response' = Reply("select_candidates", u, task_id, n, 200, NoBody)
               ELSE \* db.commit() raises IntegrityError; nothing is stored
                    /\ response' = Reply("select_candidates", u, task_id, n, 500, NoBody)
                    /\ UNCHANGED <<tasks, iterations>>
    /\ UNCHANGED <<tags, sessions, build_jobs, feedback>>
    /\ UNCHANGED <<authVars, sideVars, engineVars, progressVars, envVars>>

(***************************************************************************)
(* POST /builds/trigger                                                    *)
(***************************************************************************)
\* db.query(Tag).filter(Tag.id.in_(tag_ids), project_id == ..., branch_id == ...)
RequestedTags(tag_ids, task) ==
    {tg \in tags : /\ tg.id \in tag_ids
                   /\ tg.project_id = task.project_id
                   /\ tg.branch_id = task.branch_id}

\* What build_service.trigger_build does for one tag: it returns a build id
\* (queued), it returns without one (Jenkins answers 201 with no Location
\* header: 'build_id': None), or it raises.
DispatchOutcomes == {"queued", "no_build_id", "raised"}

\* Mutant of NewBuildJob: a dispatch that raised leaves a pending job.
NewBuildJob_AlwaysPending(id, task_id, iteration_id, tag_id, build_service, dispatched) ==
    [id |-> id, task_id |-> task_id, iteration_id |-> iteration_id,
     tag_id |-> tag_id, build_service |-> build_service,
     external_build_id |-> IF dispatched = "queued" THEN id ELSE NULL,
     status |-> "pending",
     completed_at |-> NULL]

\* The BuildJob of one tag: external_build_id=build_result.get('build_id'),
\* status=build_result.get('status', 'pending') (every integration returns
\* PENDING), or, when trigger_build raised, status failed and no external id.
\* The external build id of a job is written as the job's own id.
NewBuildJob(id, task_id, iteration_id, tag_id, build_service, dispatched) ==
    [id |-> id, task_id |-> task_id, iteration_id |-> iteration_id,
     tag_id |-> tag_id, build_service |-> build_service,
     external_build_id |-> IF dispatched = "queued" THEN id ELSE NULL,
     status |-> IF dispatched = "raised" THEN "failed" ELSE "pending",
     completed_at |-> NULL]

FreeBuildIds == {b \in BuildIds : \A j \in build_jobs : j.id # b}

\* The active ServiceConfig of a build service (at most one row per name).
ConfigOf(build_service) == {c \in service_configs : c.service_name = build_service}

\* BuildServiceFactory.create_service(name, config_data) returns an instance.
CanCreateService(build_service) == \E c \in ConfigOf(build_service) : c.usable

\* One call to the build service: the method, the tag or build it is for and
\* what the call did.
ExternalCall(call, arg, outcome) == [call |-> call, arg |-> arg, outcome |-> outcome]

\* Mutant of IterationOfTask: any iteration, whatever task it belongs to.
IterationOfTask_AnyTask(iteration_id, task_id) ==
    {it \in iterations : it.id = iteration_id}

\* db.query(TaskIteration).filter(id == iteration_id, task_id == task_id)
IterationOfTask(iteration_id, task_id) ==
    {it \in iterations : it.id = iteration_id /\ it.task_id = task_id}

\* tag_ids: the distinct ids of the request.  What each dispatch does is the
\* build service's choice, made when the handler reaches the dispatch loop.
TriggerBuilds(u, task_id, iteration_id, build_service, tag_ids) ==
    /\ Cardinality(tag_ids) <= Cardinality(FreeBuildIds)
    /\ IF OwnedTasks(u, task_id) = {}
       THEN /\ response' = Reply("trigger_builds", u, task_id, 0, 404, NoBody)
            /\ UNCHANGED build_jobs
       ELSE LET task == CHOOSE tk \in OwnedTasks(u, task_id) : TRUE
                found == RequestedTags(tag_ids, task)
                ids == CHOOSE f \in [found -> FreeBuildIds] :
                          \A x, y \in found : x # y => f[x] # f[y]
            IN IF task.status # "active"
               THEN /\ response' = Reply("trigger_builds", u, task_id, 0, 400, NoBody)
                    /\ UNCHANGED build_jobs
               ELSE IF \/ IterationOfTask(iteration_id, task_id) = {}
                       \/ ConfigOf(build_service) = {}
               THEN /\ response' = Reply("trigger_builds", u, task_id, 0, 404, NoBody)
                    /\ UNCHANGED build_jobs
               ELSE IF Cardinality(found) # Cardinality(tag_ids)
               THEN /\ response' = Reply("trigger_builds", u, task_id, 0, 400, NoBody)
                    /\ UNCHANGED build_jobs
               ELSE IF ~CanCreateService(build_service)
               THEN \* "Failed to initialize build service"
                    /\ response' =
                         [Reply("trigger_builds", u, task_id,
                                Cardinality(tag_ids), 500, NoBody)
                             EXCEPT !.request = <<iteration_id, build_service, tag_ids>>]
                    /\ UNCHANGED build_jobs
               ELSE \E outcome \in [tag_ids -> DispatchOutcomes] :
                    LET created ==
                          {NewBuildJob(ids[tg], task_id, iteration_id, tg.id,
                                       build_service, outcome[tg.id]) : tg \in found}
                    IN /\ build_jobs' = build_jobs \cup created
                       /\ response' =
                            [Reply("trigger_builds", u, task_id,
                                   Cardinality(tag_ids), 200, NoBody)
                                EXCEPT !.jobs = created,
                                       !.external =
                                           {ExternalCall("trigger_build", tg.id,
                                                         outcome[tg.id]) : tg \in found},
                                       !.request = <<iteration_id, build_service, tag_ids>>]
    /\ UNCHANGED <<tags, tasks, sessions, iterations, feedback>>
    /\ UNCHANGED <<authVars, sideVars, engineVars, progressVars, envVars>>

\* db.query(BuildJob).join(LocalizationTask).filter(BuildJob.id == build_id,
\*                                                   user_id == current_user.id)
OwnedBuildJobs(u, build_id) ==
    {j \in build_jobs : /\ j.id = build_id
                        /\ \E tk \in tasks : tk.id = j.task_id /\ tk.user_id = u}

\* The response of an endpoint addressed by build id.
BuildReply(op, u, build_id, code) ==
    [Reply(op, u, NULL, 0, code, NoBody) EXCEPT !.build = build_id]

(***************************************************************************)
(* POST /builds/{build_id}/feedback                                        *)
(***************************************************************************)
FeedbackRowIds == {"f1", "f2", "f3"}

FreeFeedbackIds == {f \in FeedbackRowIds : \A x \in feedback : x.id # f}

\* db.query(UserFeedback).filter(build_job_id == build_id): .first() takes
\* one of these rows.
ExistingFeedback(build_id) == {x \in feedback : x.build_job_id = build_id}

\* Mutant of UpdatedFeedback: the notes of the stored row are kept.
UpdatedFeedback_KeepsNotes(old, feedback_type, notes) ==
    IF old.feedback_type = feedback_type
    THEN old
    ELSE [old EXCEPT !.feedback_type = feedback_type, !.updated = TRUE]

\* existing_feedback.feedback_type = ...; existing_feedback.notes = ...
\* (an UPDATE is sent, and updated_at moves, only if a value changed)
UpdatedFeedback(old, feedback_type, notes) ==
    IF old.feedback_type = feedback_type /\ old.notes = notes
    THEN old
    ELSE [old EXCEPT !.feedback_type = feedback_type, !.notes = notes,
                     !.updated = TRUE]

\* UserFeedback(task_id=..., build_job_id=..., feedback_type=..., notes=...)
NewFeedback(id, job, u, feedback_type, notes) ==
    [id |-> id,
     task_id |-> job.task_id,
     iteration_id |-> job.iteration_id,
     build_job_id |-> job.id,
     tag_id |-> job.tag_id,
     feedback_type |-> feedback_type,
     notes |-> notes,
     created_by |-> u,
     updated |-> FALSE]

\* The stored feedback returned, with the submission it answers.
FeedbackReply(u, task_id, build_id, feedback_type, notes) ==
    [Reply("submit_feedback", u, task_id, 0, 200, NoBody)
        EXCEPT !.build = build_id, !.request = <<feedback_type, notes>>]

\* The whole handler with no other request in between.
SubmitFeedback(u, build_id, feedback_type, notes) ==
    /\ FreeFeedbackIds # {}
    /\ IF OwnedBuildJobs(u, build_id) = {}
       THEN /\ response' = BuildReply("submit_feedback", u, build_id, 404)
            /\ UNCHANGED feedback
       ELSE LET job == CHOOSE j \in OwnedBuildJobs(u, build_id) : TRUE
                id == CHOOSE f \in FreeFeedbackIds : TRUE
            IN /\ IF ExistingFeedback(build_id) # {}
                  THEN \E old \in ExistingFeedback(build_id) :
                          feedback' = (feedback \ {old}) \cup
                                         {UpdatedFeedback(old, feedback_type, notes)}
                  ELSE feedback' = feedback \cup
                                     {NewFeedback(id, job, u, feedback_type, notes)}
               /\ response' = FeedbackReply(u, job.task_id, build_id,
                                            feedback_type, notes)
    /\ UNCHANGED <<tags, tasks, sessions, iterations, build_jobs>>
    /\ UNCHANGED <<authVars, sideVars, engineVars, progressVars, envVars>>

(***************************************************************************)
(* GET /builds/{build_id} and POST /builds/{build_id}/cancel               *)
(***************************************************************************)
\* Enum("pending", "running", "success", "failed", "cancelled")
BuildStatuses == {"pending", "running", "success", "failed", "cancelled"}

TerminalStatuses == {"success", "failed", "cancelled"}

\* datetime.utcnow() written to completed_at
Stamped == "stamped"

\* if build_job.external_build_id and build_job.status in ["pending", "running"]
ShouldPoll(job) ==
    job.external_build_id # NULL /\ job.status \in {"pending", "running"}

\* Mutant of Polled: the status is taken over, completed_at is never set.
Polled_NoCompletionTime(job, updated_status) ==
    IF updated_status # job.status
    THEN [job EXCEPT !.status = updated_status]
    ELSE job

\* if updated_status != build_job.status: build_job.status = updated_status,
\* and completed_at = utcnow() if the new status is success/failed/cancelled
Polled(job, updated_status) ==
    IF updated_status # job.status
    THEN [job EXCEPT !.status = updated_status,
                     !.completed_at = IF updated_status \in TerminalStatuses
                                      THEN Stamped ELSE @]
    ELSE job

\* What build_service.get_build_status returns, or that it raised.
PollOutcomes == BuildStatuses \cup {"raised"}

GetBuildStatus(u, build_id) ==
    /\ IF OwnedBuildJobs(u, build_id) = {}
       THEN /\ response' = BuildReply("get_build_status", u, build_id, 404)
            /\ UNCHANGED build_jobs
       ELSE LET job == CHOOSE j \in OwnedBuildJobs(u, build_id) : TRUE
            IN IF ShouldPoll(job) /\ CanCreateService(job.build_service)
               THEN \E reported \in PollOutcomes :
                    LET after == IF reported = "raised" THEN job
                                 ELSE Polled(job, reported)
                    IN /\ build_jobs' = (build_jobs \ {job}) \cup {after}
                       /\ response' =
                            [BuildReply("get_build_status", u, build_id, 200)
                                EXCEPT !.jobs = {after},
                                       !.external = {ExternalCall("get_build_status",
                                                                  job.id, reported)}]
               ELSE \* not polled: terminal, no external id, no active
                    \* configuration, or create_service raised (swallowed)
                    /\ response' = [BuildReply("get_build_status", u, build_id, 200)
                                       EXCEPT !.jobs = {job}]
                    /\ UNCHANGED build_jobs
    /\ UNCHANGED <<tags, tasks, sessions, iterations, feedback>>
    /\ UNCHANGED <<authVars, sideVars, engineVars, progressVars, envVars>>

\* Mutant of Cancelled: completed_at is left as it was.
Cancelled_NoCompletionTime(job) == [job EXCEPT !.status = "cancelled"]

\* build_job.status = "cancelled"; completed_at = utcnow() if not yet set
Cancelled(job) ==
    [job EXCEPT !.status = "cancelled",
                !.completed_at = IF @ = NULL THEN Stamped ELSE @]

\* What build_service.cancel_build returns, or that it raised.
CancelOutcomes == {"cancelled", "refused", "raised"}

CancelBuild(u, build_id) ==
    /\ IF OwnedBuildJobs(u, build_id) = {}
       THEN /\ response' = BuildReply("cancel_build", u, build_id, 404)
            /\ UNCHANGED build_jobs
       ELSE LET job == CHOOSE j \in OwnedBuildJobs(u, build_id) : TRUE
            IN IF job.status \in TerminalStatuses
               THEN \* "Build is already completed"
                    /\ response' = [BuildReply("cancel_build", u, build_id, 200)
                                       EXCEPT !.jobs = {job},
                                              !.request = <<"already completed">>]
                    /\ UNCHANGED build_jobs
               ELSE /\ build_jobs' = (build_jobs \ {job}) \cup {Cancelled(job)}
                    /\ IF job.external_build_id # NULL
                          /\ CanCreateService(job.build_service)
                       THEN \E result \in CancelOutcomes :
                            response' =
                               [BuildReply("cancel_build", u, build_id, 200)
                                   EXCEPT !.jobs = {Cancelled(job)},
                                          !.request = <<"cancelled">>,
                                          !.external = {ExternalCall("cancel_build",
                                                                     job.id, result)}]
                       ELSE response' =
                               [BuildReply("cancel_build", u, build_id, 200)
                                   EXCEPT !.jobs = {Cancelled(job)},
                                          !.request = <<"cancelled">>]
    /\ UNCHANGED <<tags, tasks, sessions, iterations, feedback>>
    /\ UNCHANGED <<authVars, sideVars, engineVars, progressVars, envVars>>

\* The rows of service_configs are written by the operator of the
\* deployment (no endpoint writes them): the jenkins configuration is
\* removed or deactivated, stored without what create_service reads, or
\* stored complete.
ServiceConfigurations ==
    {{}, {ServiceConfigRow("jenkins", FALSE)}, {ServiceConfigRow("jenkins", TRUE)}}

ConfigureService(rows) ==
    /\ rows # service_configs
    /\ uq_service_type_name(rows)
    /\ service_configs' = rows
    /\ UNCHANGED <<dbVars, inflight, response>>
    /\ UNCHANGED <<authVars, sideVars, engineVars, progressVars>>

(***************************************************************************)
(* GET /tasks/{task_id}, PUT /tasks/{task_id}, GET /tasks/{task_id}/       *)
(* iterations, GET /builds/{build_id}/logs, GET /builds/task/{task_id}     *)
(***************************************************************************)
GetTask(u, task_id) ==
    /\ response' = IF OwnedTasks(u, task_id) = {}
                   THEN Reply("get_task", u, task_id, 0, 404, NoBody)
                   ELSE [Reply("get_task", u, task_id, 0, 200, NoBody)
                            EXCEPT !.rows = OwnedTasks(u, task_id)]
    /\ UNCHANGED dbVars
    /\ UNCHANGED <<authVars, sideVars, engineVars, progressVars, envVars>>

\* task_update.resolution_notes, when given, replaces the stored notes
\* (task_name and description are updated the same way).
UpdateTask(u, task_id, resolution_notes) ==
    /\ IF OwnedTasks(u, task_id) = {}
       THEN /\ response' = Reply("update_task", u, task_id, 0, 404, NoBody)
            /\ UNCHANGED tasks
       ELSE LET task == CHOOSE tk \in OwnedTasks(u, task_id) : TRUE
                updated == IF resolution_notes # NULL
                           THEN [task EXCEPT !.resolution_notes = resolution_notes]
                           ELSE task
            IN /\ tasks' = (tasks \ {task}) \cup {updated}
               /\ response' = [Reply("update_task", u, task_id, 0, 200, NoBody)
                                  EXCEPT !.rows = {updated}]
    /\ UNCHANGED <<tags, sessions, iterations, build_jobs, feedback>>
    /\ UNCHANGED <<authVars, sideVars, engineVars, progressVars, envVars>>

GetTaskIterations(u, task_id) ==
    /\ response' = IF OwnedTasks(u, task_id) = {}
                   THEN Reply("get_task_iterations", u, task_id, 0, 404, NoBody)
                   ELSE [Reply("get_task_iterations", u, task_id, 0, 200, NoBody)
                            EXCEPT !.rows = {it \in iterations : it.task_id = task_id}]
    /\ UNCHANGED dbVars
    /\ UNCHANGED <<authVars, sideVars, engineVars, progressVars, envVars>>

GetTaskBuilds(u, task_id) ==
    /\ response' = IF OwnedTasks(u, task_id) = {}
                   THEN Reply("get_task_builds", u, task_id, 0, 404, NoBody)
                   ELSE [Reply("get_task_builds", u, task_id, 0, 200, NoBody)
                            EXCEPT !.jobs = {j \in build_jobs : j.task_id = task_id}]
    /\ UNCHANGED dbVars
    /\ UNCHANGED <<authVars, sideVars, engineVars, progressVars, envVars>>

\* What build_service.get_build_logs does: it returns text or raises; both
\* are answered 200 with a "logs" string.
LogOutcomes == {"logs", "raised"}

GetBuildLogs(u, build_id) ==
    /\ IF OwnedBuildJobs(u, build_id) = {}
       THEN response' = BuildReply("get_build_logs", u, build_id, 404)
       ELSE LET job == CHOOSE j \in OwnedBuildJobs(u, build_id) : TRUE
            IN IF job.external_build_id # NULL /\ CanCreateService(job.build_service)
               THEN \E outcome \in LogOutcomes :
                       response' =
                          [BuildReply("get_build_logs", u, build_id, 200)
                              EXCEPT !.external = {ExternalCall("get_build_logs",
                                                                job.id, outcome)}]
               ELSE response' = BuildReply("get_build_logs", u, build_id, 200)
    /\ UNCHANGED dbVars
    /\ UNCHANGED <<authVars, sideVars, engineVars, progressVars, envVars>>

(***************************************************************************)
(* Spec: every request of every caller, in any order.                      *)
(***************************************************************************)
Init ==
    /\ tags = {} /\ tasks = {} /\ sessions = {} /\ iterations = {}
    /\ build_jobs = {} /\ feedback = {}
    /\ service_configs = {JenkinsConfig}
    /\ inflight = {}
    /\ response = NoRequest
    /\ EngineIdle
    /\ ProgressIdle
    /\ AuthIdle
    /\ SideIdle

ProjectIds == {"p1"}

BranchIds == {"main", "dev"}

SetupRequest ==
    \/ \E u \in Users, pr \in ProjectIds, br \in BranchIds,
          name \in TagNames, seq \in SeqNumbers :
            ImportTags(u, pr, br, name, seq)
    \/ \E u \in Users, pr \in ProjectIds, br \in BranchIds,
          good \in TagNames, bad \in TagNames :
            CreateTask(u, pr, br, good, bad)

\* The tag lists a round asks builds for: one tag, and all three.
RoundTagLists == {{"v2"}, TagNames}

RoundRequest ==
    \/ \E u \in Users, t \in TaskIds : GetCandidates(u, t)
    \/ \E u \in Users, t \in TaskIds, n \in 0..MaxRequested :
            SelectCandidates(u, t, n)
    \/ \E u \in Users, t \in TaskIds, it \in IterationIds, ids \in RoundTagLists :
            TriggerBuilds(u, t, it, "jenkins", ids)
    \/ \E u \in Users, verdict \in Verdicts :
            SubmitFeedback(u, "b1", verdict, NULL)

LifecycleRequest ==
    \/ \E u \in Users, t \in TaskIds : PauseTask(u, t)
    \/ \E u \in Users, t \in TaskIds : ResumeTask(u, t)
    \/ \E u \in Users, t \in TaskIds : DeleteTask(u, t)

Next == SetupRequest \/ RoundRequest \/ LifecycleRequest

Spec == Init /\ [][Next]_vars

(***************************************************************************)
(* SpecRound: the requests of the search round (candidates, selection,     *)
(* build trigger, feedback) after the setup requests.  The owner keeps     *)
(* repeating each step of the round: weak fairness on the owner's          *)
(* requests.                                                               *)
(***************************************************************************)
Owner == "alice"

OwnerGetsCandidates == \E t \in TaskIds : GetCandidates(Owner, t)

OwnerSelects ==
    \E t \in TaskIds, n \in MinSelection..MaxSelection : SelectCandidates(Owner, t, n)

OwnerTriggers ==
    \E t \in TaskIds, it \in IterationIds, ids \in (SUBSET TagNames) \ {{}} :
        TriggerBuilds(Owner, t, it, "jenkins", ids)

OwnerSubmits == \E b \in BuildIds, verdict \in Verdicts : SubmitFeedback(Owner, b, verdict, NULL)

NextRound == SetupRequest \/ RoundRequest

SpecRound ==
    /\ Init
    /\ [][NextRound]_vars
    /\ WF_vars(OwnerGetsCandidates)
    /\ WF_vars(OwnerSelects)
    /\ WF_vars(OwnerTriggers)
    /\ WF_vars(OwnerSubmits)

(***************************************************************************)
(* Requests served concurrently.  A handler reads the rows it needs, then  *)
(* writes and commits; between the two another request may read or commit. *)
(* A request in flight holds the rows it read.                             *)
(***************************************************************************)
Slots == 1..MaxInflight

FreeSlots == {k \in Slots : \A r \in inflight : r.slot # k}

\* Rows every specification below starts from: the tags of project p1 as
\* imported by alice, three on main and one on dev.
TagSeed(name, branch_id, seq) ==
    [id |-> name, name |-> name, project_id |-> "p1", branch_id |-> branch_id,
     sequence_number |-> seq]

SeedTags == {TagSeed("v1", "main", 1), TagSeed("v2", "main", 2),
             TagSeed("v3", "main", 3), TagSeed("v4", "dev", 2)}

\* alice's task t1 on main, good v1, bad v3, as create_task stores it, and
\* its session.
SeedTask(status) ==
    [id |-> "t1", user_id |-> "alice", project_id |-> "p1", branch_id |-> "main",
     good_tag_id |-> "v1", bad_tag_id |-> "v3", status |-> status,
     total_tags_in_range |-> 3, current_iteration |-> 0,
     final_problematic_tag_id |-> NULL,
     resolution_notes |-> NULL]

SeedSession == [task_id |-> "t1", current_range_start |-> 0, current_range_end |-> 2]

(***************************************************************************)
(* SpecSelect: select-candidates requests on task t1, served concurrently. *)
(***************************************************************************)
InitSelect ==
    /\ tags = SeedTags
    /\ tasks = {SeedTask("active")}
    /\ sessions = {SeedSession}
    /\ iterations = {} /\ build_jobs = {} /\ feedback = {}
    /\ service_configs = {JenkinsConfig}
    /\ inflight = {}
    /\ response = NoRequest
    /\ EngineIdle
    /\ ProgressIdle
    /\ AuthIdle
    /\ SideIdle

\* select_candidates_for_testing up to db.add(iteration): the checks, and
\* the task row read (its current_iteration numbers the new iteration).
BeginSelect(u, task_id, n) ==
    /\ FreeSlots # {}
    /\ IF ~SchemaAcceptsSelection(n)
       THEN /\ response' = Reply("select_candidates", u, task_id, n, 422, NoBody)
            /\ UNCHANGED inflight
       ELSE IF OwnedTasks(u, task_id) = {}
       THEN /\ response' = Reply("select_candidates", u, task_id, n, 404, NoBody)
            /\ UNCHANGED inflight
       ELSE LET task == CHOOSE tk \in OwnedTasks(u, task_id) : TRUE
            IN IF task.status # "active" \/ HandlerRejectsSelection(n)
               THEN /\ response' = Reply("select_candidates", u, task_id, n, 400, NoBody)
                    /\ UNCHANGED inflight
               ELSE /\ inflight' = inflight \cup
                          {[slot |-> CHOOSE k \in FreeSlots : TRUE,
                            op |-> "select_candidates", user |-> u, n |-> n,
                            task |-> task]}
                    /\ UNCHANGED response
    /\ UNCHANGED <<dbVars, service_configs>>
    /\ UNCHANGED <<authVars, sideVars, engineVars, progressVars>>

\* CommitSelect with the UPDATE of the task kept when the INSERT of the
\* iteration is refused.
CommitSelect_KeepsTaskUpdate(r) ==
    /\ r \in inflight
    /\ r.op = "select_candidates"
    /\ {i \in IterationIds : \A it \in iterations : it.id # i} # {}
    /\ LET id == CHOOSE i \in IterationIds : \A it \in iterations : it.id # i
           iteration == NewIteration(id, r.task, r.n)
           stored == /\ check_range_valid(iteration)
                     /\ ix_iterations_task_number(iterations \cup {iteration})
       IN /\ iterations' = IF stored THEN iterations \cup {iteration} ELSE iterations
          /\ tasks' = {IF tk.id = r.task.id
                       THEN [tk EXCEPT !.current_iteration =
                                           r.task.current_iteration + 1]
                       ELSE tk : tk \in tasks}
          /\ response' = [Reply("select_candidates", r.user, r.task.id, r.n,
                                IF stored THEN 200 ELSE 500, NoBody)
                             EXCEPT !.request = <<iteration.iteration_number>>]
    /\ inflight' = inflight \ {r}
    /\ UNCHANGED <<tags, sessions, build_jobs, feedback, service_configs>>
    /\ UNCHANGED <<authVars, sideVars, engineVars, progressVars>>

\* task.current_iteration += 1; db.commit(): the INSERT of the iteration and
\* the UPDATE of the task, with the value computed from the row as read.
CommitSelect(r) ==
    /\ r \in inflight
    /\ r.op = "select_candidates"
    /\ {i \in IterationIds : \A it \in iterations : it.id # i} # {}
    /\ LET id == CHOOSE i \in IterationIds : \A it \in iterations : it.id # i
           iteration == NewIteration(id, r.task, r.n)
       IN IF /\ check_range_valid(iteration)
             /\ ix_iterations_task_number(iterations \cup {iteration})
          THEN /\ iterations' = iterations \cup {iteration}
               /\ tasks' = {IF tk.id = r.task.id
                            THEN [tk EXCEPT !.current_iteration =
                                                r.task.current_iteration + 1]
                            ELSE tk : tk \in tasks}
               /\ response' = [Reply("select_candidates", r.user, r.task.id, r.n,
                                     200, NoBody)
                                  EXCEPT !.request = <<iteration.iteration_number>>]
          ELSE \* IntegrityError: the transaction is rolled back
               /\ response' = [Reply("select_candidates", r.user, r.task.id, r.n,
                                     500, NoBody)
                                  EXCEPT !.request = <<iteration.iteration_number>>]
               /\ UNCHANGED <<tasks, iterations>>
    /\ inflight' = inflight \ {r}
    /\ UNCHANGED <<tags, sessions, build_jobs, feedback, service_configs>>
    /\ UNCHANGED <<authVars, sideVars, engineVars, progressVars>>

NextSelect ==
    \/ \E u \in Users, t \in TaskIds, n \in 0..MaxRequested : BeginSelect(u, t, n)
    \/ \E r \in inflight : CommitSelect(r)

SpecSelect == InitSelect /\ [][NextSelect]_vars

(***************************************************************************)
(* SpecBuilds: the build endpoints on iterations that exist.  No request   *)
(* of the API stores an iteration (select_candidates answers 500), so the  *)
(* specification starts from rows that satisfy the schema: alice's active  *)
(* task t1 with iteration i1 and her paused task t2 with iteration i2.     *)
(***************************************************************************)
SeedIteration(id, task_id) ==
    [id |-> id, task_id |-> task_id, iteration_number |-> 1,
     search_range_start |-> 0, search_range_end |-> 2, selected_count |-> 3]

SeedIterations == {SeedIteration("i1", "t1"), SeedIteration("i2", "t2")}

SeedTasks ==
    {[SeedTask("active") EXCEPT !.current_iteration = 1],
     [SeedTask("paused") EXCEPT !.id = "t2", !.current_iteration = 1]}

SeedSessions == {SeedSession, [SeedSession EXCEPT !.task_id = "t2"]}

SeedTaskIds == {tk.id : tk \in SeedTasks}

SeedIterationIds == {it.id : it \in SeedIterations}

\* The tag lists requested: one tag of the task's branch, three of them,
\* and a list with a tag of another branch.
TagRequests == {{"v2"}, {"v1", "v2", "v3"}, {"v2", "v4"}}

InitBuilds ==
    /\ tags = SeedTags
    /\ tasks = SeedTasks
    /\ sessions = SeedSessions
    /\ iterations = SeedIterations
    /\ build_jobs = {}
    /\ feedback = {}
    /\ service_configs = {JenkinsConfig}
    /\ inflight = {}
    /\ response = NoRequest
    /\ EngineIdle
    /\ ProgressIdle
    /\ AuthIdle
    /\ SideIdle

NextBuilds ==
    \/ \E u \in Users, t \in SeedTaskIds, it \in SeedIterationIds,
          service \in RequestedBuildServices,
          ids \in TagRequests :
            TriggerBuilds(u, t, it, service, ids)
    \/ \E u \in Users, b \in BuildIds : GetBuildStatus(u, b)
    \/ \E u \in Users, b \in BuildIds : CancelBuild(u, b)
    \/ \E rows \in ServiceConfigurations : ConfigureService(rows)

SpecBuilds == InitBuilds /\ [][NextBuilds]_vars

(***************************************************************************)
(* SpecSubmissions: feedback submitted one request after the other, on     *)
(* build jobs that exist: b1 of alice's task t1 and b2 of her task t2.     *)
(***************************************************************************)
SeedJob(id, task_id, iteration_id, tag_id) ==
    NewBuildJob(id, task_id, iteration_id, tag_id, "jenkins", "queued")

SeedJobs == {SeedJob("b1", "t1", "i1", "v2"), SeedJob("b2", "t2", "i2", "v1")}

\* feedback.notes: Optional[str]
Notes == {NULL, "flaky"}

InitSubmissions ==
    /\ tags = SeedTags
    /\ tasks = SeedTasks
    /\ sessions = SeedSessions
    /\ iterations = SeedIterations
    /\ build_jobs = SeedJobs
    /\ feedback = {}
    /\ service_configs = {JenkinsConfig}
    /\ inflight = {}
    /\ response = NoRequest
    /\ EngineIdle
    /\ ProgressIdle
    /\ AuthIdle
    /\ SideIdle

NextSubmissions ==
    \E u \in Users, b \in BuildIds, verdict \in Verdicts, notes \in Notes :
        SubmitFeedback(u, b, verdict, notes)

SpecSubmissions == InitSubmissions /\ [][NextSubmissions]_vars

(***************************************************************************)
(* SpecFeedback: feedback requests served concurrently.  A request reads   *)
(* the job and the existing feedback in its own session (BeginFeedback)    *)
(* and writes at its commit (CommitFeedback).                              *)
(***************************************************************************)
NoRow == [id |-> NULL]

BeginFeedback(u, build_id, feedback_type, notes) ==
    /\ FreeSlots # {}
    /\ IF OwnedBuildJobs(u, build_id) = {}
       THEN /\ response' = BuildReply("submit_feedback", u, build_id, 404)
            /\ UNCHANGED inflight
       ELSE \E existing \in IF ExistingFeedback(build_id) = {}
                            THEN {NoRow} ELSE ExistingFeedback(build_id) :
               /\ inflight' = inflight \cup
                     {[slot |-> CHOOSE k \in FreeSlots : TRUE,
                       op |-> "submit_feedback", user |-> u,
                       job |-> CHOOSE j \in OwnedBuildJobs(u, build_id) : TRUE,
                       existing |-> existing.id,
                       feedback_type |-> feedback_type, notes |-> notes]}
               /\ UNCHANGED response
    /\ UNCHANGED <<dbVars, service_configs>>
    /\ UNCHANGED <<authVars, sideVars, engineVars, progressVars>>

\* db.commit(): the UPDATE of the row read, or the INSERT of a new row.  The
\* table has no constraint that an INSERT for the same build job violates.
CommitFeedback(r) ==
    /\ r \in inflight
    /\ r.op = "submit_feedback"
    /\ FreeFeedbackIds # {}
    /\ IF r.existing # NULL
       THEN feedback' = {IF x.id = r.existing
                         THEN UpdatedFeedback(x, r.feedback_type, r.notes)
                         ELSE x : x \in feedback}
       ELSE feedback' = feedback \cup
                {NewFeedback(CHOOSE f \in FreeFeedbackIds : TRUE, r.job, r.user,
                             r.feedback_type, r.notes)}
    /\ response' = FeedbackReply(r.user, r.job.task_id, r.job.id,
                                 r.feedback_type, r.notes)
    /\ inflight' = inflight \ {r}
    /\ UNCHANGED <<tags, tasks, sessions, iterations, build_jobs, service_configs>>
    /\ UNCHANGED <<authVars, sideVars, engineVars, progressVars>>

\* The concurrent submissions: for alice's job b1 and for an id that is no
\* job, with two verdicts and no notes.
ConcurrentBuildIds == {"b1", "b3"}

ConcurrentVerdicts == {"working", "broken"}

NextFeedback ==
    \/ \E u \in Users, b \in ConcurrentBuildIds, verdict \in ConcurrentVerdicts :
          BeginFeedback(u, b, verdict, NULL)
    \/ \E r \in inflight : CommitFeedback(r)

SpecFeedback == InitSubmissions /\ [][NextFeedback]_vars

(***************************************************************************)
(* SpecAccess: every endpoint addressed by task id or build id, called by  *)
(* the owner (alice) and by another user (bob), on ids of rows that exist  *)
(* (t1, b1) and on ids of no row (t3, b3, and t1 and b1 once the owner     *)
(* deleted the task).                                                      *)
(***************************************************************************)
AccessTaskIds == {"t1", "t3"}

AccessBuildIds == {"b1", "b3"}

TaskRequest(u, t) ==
    \/ GetTask(u, t)
    \/ UpdateTask(u, t, "fixed")
    \/ DeleteTask(u, t)
    \/ PauseTask(u, t)
    \/ ResumeTask(u, t)
    \/ GetCandidates(u, t)
    \/ \E n \in {0, MinSelection} : SelectCandidates(u, t, n)
    \/ GetTaskIterations(u, t)
    \/ GetTaskBuilds(u, t)
    \/ TriggerBuilds(u, t, "i1", "jenkins", {"v2"})

BuildRequest(u, b) ==
    \/ GetBuildStatus(u, b)
    \/ SubmitFeedback(u, b, "broken", NULL)
    \/ GetBuildLogs(u, b)
    \/ CancelBuild(u, b)

NextAccess ==
    \/ \E u \in Users, t \in AccessTaskIds : TaskRequest(u, t)
    \/ \E u \in Users, b \in AccessBuildIds : BuildRequest(u, b)

SpecAccess == InitSubmissions /\ [][NextAccess]_vars

(***************************************************************************)
(* SpecTokens: auth/security.py.  A client holds one token; tokens are     *)
(* issued, altered by the holder, and verified while the clock advances.   *)
(* Time is counted in ticks; the default lifetimes keep the order of       *)
(* settings.access_token_expire_minutes (30 minutes) and                   *)
(* settings.refresh_token_expire_days (7 days).                            *)
(***************************************************************************)
AccessLifetime == 1

RefreshLifetime == 2

\* settings.secret_key
SecretKey == "secret_key"

\* The HMAC of the encoded payload under a key: equal signatures mean equal
\* key and equal payload.
Sign(key, payload) == [key |-> key, over |-> payload]

\* jwt.encode(to_encode, settings.secret_key, algorithm=...)
Encode(payload) == [payload |-> payload, signature |-> Sign(SecretKey, payload)]

\* data: the claims the caller passes; NULL stands for an absent key.  A
\* "type" given by the caller is overwritten by to_encode.update(...).
TokenClaims ==
    {[sub |-> s, type |-> t, scopes |-> {"read"}] :
        s \in {NULL, "alice"}, t \in {NULL, "refresh"}}

\* expires_delta: 0 for None or timedelta(0) (both falsy), negative, positive.
ExpiresDeltas == {0, -1, 2}

\* if expires_delta: expire = utcnow() + expires_delta, else + the default
Expiry(expires_delta, default) ==
    IF expires_delta # 0
    THEN now + expires_delta
    ELSE now + default

create_access_token(data, expires_delta) ==
    Encode([sub |-> data.sub, type |-> "access",
            exp |-> Expiry(expires_delta, AccessLifetime), scopes |-> data.scopes])

create_refresh_token(data, expires_delta) ==
    Encode([sub |-> data.sub, type |-> "refresh",
            exp |-> Expiry(expires_delta, RefreshLifetime), scopes |-> data.scopes])

JWTError == [sub |-> "JWTError", type |-> NULL, exp |-> 0, scopes |-> {}]

\* jwt.decode: JWTError for a signature that is not the HMAC of the payload
\* under the secret key, and for an exp in the past; else the payload.
Decode(tok) ==
    IF tok.signature # Sign(SecretKey, tok.payload) THEN JWTError
    ELSE IF tok.payload.exp < now THEN JWTError
    ELSE tok.payload

\* Mutant of TypeMatches: the type claim is not compared.
TypeMatches_Any(payload, token_type) == TRUE

\* payload.get("type") != token_type: return None
TypeMatches(payload, token_type) == payload.type = token_type

None == [username |-> NULL]

verify_token(tok, token_type) ==
    LET payload == Decode(tok)
    IN IF payload = JWTError THEN None
       ELSE IF ~TypeMatches(payload, token_type) THEN None
       ELSE IF payload.sub = NULL THEN None
       ELSE [username |-> payload.sub]

TokenTypes == {"access", "refresh"}

IssueAccess(data, expires_delta) ==
    /\ token' = create_access_token(data, expires_delta)
    /\ UNCHANGED <<now, verified>>
    /\ UNCHANGED <<engineVars, progressVars, apiVars, sideVars>>

IssueRefresh(data, expires_delta) ==
    /\ token' = create_refresh_token(data, expires_delta)
    /\ UNCHANGED <<now, verified>>
    /\ UNCHANGED <<engineVars, progressVars, apiVars, sideVars>>

\* What the holder of an issued token can do to it without the secret key:
\* replace the signature, or rewrite a claim and keep the signature.
Tamperings == {"signature", "type", "exp"}

OtherType(token_type) == IF token_type = "access" THEN "refresh" ELSE "access"

Tampered(tok, how) ==
    IF how = "signature"
    THEN [tok EXCEPT !.signature = Sign("forged", tok.payload)]
    ELSE IF how = "type"
    THEN [tok EXCEPT !.payload.type = OtherType(@)]
    ELSE [tok EXCEPT !.payload.exp = MaxClock + RefreshLifetime]

Tamper(how) ==
    /\ token # NoToken
    /\ token.signature = Sign(SecretKey, token.payload)
    /\ token' = Tampered(token, how)
    /\ UNCHANGED <<now, verified>>
    /\ UNCHANGED <<engineVars, progressVars, apiVars, sideVars>>

Tick ==
    /\ now < MaxClock
    /\ now' = now + 1
    /\ UNCHANGED <<token, verified>>
    /\ UNCHANGED <<engineVars, progressVars, apiVars, sideVars>>

VerifyToken(token_type) ==
    /\ token # NoToken
    /\ verified' = [token |-> token, token_type |-> token_type, at |-> now,
                    result |-> verify_token(token, token_type)]
    /\ UNCHANGED <<token, now>>
    /\ UNCHANGED <<engineVars, progressVars, apiVars, sideVars>>

InitTokens == EngineIdle /\ ProgressIdle /\ ApiIdle /\ AuthIdle /\ SideIdle

NextTokens ==
    \/ \E data \in TokenClaims, expires_delta \in ExpiresDeltas :
          IssueAccess(data, expires_delta)
    \/ \E data \in TokenClaims, expires_delta \in ExpiresDeltas :
          IssueRefresh(data, expires_delta)
    \/ \E how \in Tamperings : Tamper(how)
    \/ Tick
    \/ \E token_type \in TokenTypes : VerifyToken(token_type)

SpecTokens == InitTokens /\ [][NextTokens]_vars

(***************************************************************************)
(* SpecGuard: auth/dependencies.py get_current_user, on the tokens of      *)
(* SpecTokens and the rows of table users.  No endpoint deactivates or     *)
(* deletes a user; the rows change outside the API (AdministerUsers).      *)
(***************************************************************************)
\* User(email=..., username=..., is_active=...)
UserRow(username, email, is_active) ==
    [username |-> username, email |-> email, is_active |-> is_active]

\* users.email unique=True, users.username unique=True
uq_users(rows) ==
    \A x, y \in rows :
        (x.username = y.username \/ x.email = y.email) => x = y

\* The states of alice's account: registered and active, deactivated, gone.
UserTables ==
    {{UserRow("alice", "alice@x", TRUE)}, {UserRow("alice", "alice@x", FALSE)}, {}}

AdministerUsers(rows) ==
    /\ rows # users
    /\ uq_users(rows)
    /\ users' = rows
    /\ UNCHANGED <<engineVars, progressVars, apiVars, authVars, sideButUsers>>

\* security_scopes.scopes of the endpoint
RequiredScopes == {{}, {"write"}}

\* The scope lists a login asks for.
GrantedScopes == {{"read"}, {"read", "write"}}

GuardClaims ==
    {[sub |-> s, type |-> NULL, scopes |-> g] :
        s \in {NULL, "alice"}, g \in GrantedScopes}

\* db.query(User).filter(User.username == token_data.username)
UsersNamed(username) == {x \in users : x.username = username}

GuardReply(code, found, required) ==
    [Reply("get_current_user",
           IF code = 200 THEN (CHOOSE x \in found : TRUE).username ELSE NULL,
           NULL, 0, code, NoBody)
        EXCEPT !.request = <<required>>,
               !.rows = IF code = 200 THEN found ELSE {}]

\* raise HTTPException(status_code=HTTP_400_BAD_REQUEST, detail="Inactive user")
InactiveCode == 400

get_current_user(tok, required) ==
    LET token_data == verify_token(tok, "access")
        found == UsersNamed(token_data.username)
    IN IF token_data = None THEN GuardReply(401, {}, required)
       ELSE IF found = {} THEN GuardReply(401, {}, required)
       ELSE IF \E x \in found : ~x.is_active
            THEN GuardReply(InactiveCode, found, required)
       ELSE IF \E scope \in required : scope \notin tok.payload.scopes
            THEN GuardReply(403, found, required)
       ELSE GuardReply(200, found, required)

GetCurrentUser(required) ==
    /\ response' = get_current_user(token, required)
    /\ UNCHANGED <<dbVars, envVars, authVars, sideVars>>
    /\ UNCHANGED <<engineVars, progressVars>>

InitGuard ==
    /\ EngineIdle
    /\ ProgressIdle
    /\ ApiIdle
    /\ AuthIdle
    /\ users = {UserRow("alice", "alice@x", TRUE)}
    /\ ProjectsIdle
    /\ SocketsIdle
    /\ RunsIdle
    /\ SessionsIdle
    /\ CryptoIdle
    /\ SignupIdle
    /\ UpdatesIdle
    /\ GitIdle

NextGuard ==
    \/ \E data \in GuardClaims, expires_delta \in ExpiresDeltas :
          IssueAccess(data, expires_delta)
    \/ \E data \in GuardClaims : IssueRefresh(data, 0)
    \/ Tamper("signature")
    \/ Tick
    \/ \E rows \in UserTables : AdministerUsers(rows)
    \/ \E required \in RequiredScopes : GetCurrentUser(required)

SpecGuard == InitGuard /\ [][NextGuard]_vars

(***************************************************************************)
(* Registration: api/auth.py register_user.  The handler reads the users   *)
(* table, and inserts and commits when it found no row with the email or   *)
(* the username.  Two server processes can both read before either         *)
(* commits; the unique indexes of the table are checked by the database at *)
(* the INSERT.                                                             *)
(***************************************************************************)
Emails == {"alice@x", "bob@x"}

Usernames == {"alice", "bob"}

\* db.query(User).filter((User.email == e) | (User.username == u))
ExistingUsers(email, username) ==
    {x \in users : x.email = email \/ x.username = username}

RegisterReply(email, username, code, created) ==
    [Reply("register_user", username, NULL, 0, code, NoBody)
        EXCEPT !.request = <<email, username>>, !.rows = created]

\* The statuses of register_user: 201 from the decorator, 400 from both
\* HTTPExceptions, 500 for an exception no handler catches.
Created == 201

Conflict == 400

ServerError == 500

\* The existence check: 400 when a row is found, otherwise the request goes
\* on to hash the password and insert.
BeginRegister(email, username) ==
    /\ FreeSlots # {}
    /\ IF ExistingUsers(email, username) # {}
       THEN /\ response' = RegisterReply(email, username, Conflict, {})
            /\ UNCHANGED inflight
       ELSE /\ inflight' = inflight \cup
                  {[slot |-> CHOOSE k \in FreeSlots : TRUE, op |-> "register_user",
                    email |-> email, username |-> username]}
            /\ UNCHANGED response
    /\ UNCHANGED <<dbVars, service_configs>>
    /\ UNCHANGED <<authVars, sideVars, engineVars, progressVars>>

\* db.add(db_user); db.commit(): the INSERT violates a unique index when a
\* row with the email or the username was committed since the check, and the
\* IntegrityError leaves the handler uncaught.
CommitRegister(r) ==
    /\ r \in inflight
    /\ r.op = "register_user"
    /\ LET db_user == UserRow(r.username, r.email, TRUE) IN
          IF ExistingUsers(r.email, r.username) = {}
          THEN /\ users' = users \cup {db_user}
               /\ response' = RegisterReply(r.email, r.username, Created, {db_user})
          ELSE /\ UNCHANGED users
               /\ response' = RegisterReply(r.email, r.username, ServerError, {})
    /\ inflight' = inflight \ {r}
    /\ UNCHANGED <<dbVars, service_configs>>
    /\ UNCHANGED <<authVars, sideButUsers, engineVars, progressVars>>

InitRegister ==
    /\ EngineIdle
    /\ ProgressIdle
    /\ ApiIdle
    /\ AuthIdle
    /\ SideIdle

NextRegister ==
    \/ \E email \in Emails, username \in Usernames : BeginRegister(email, username)
    \/ \E r \in inflight : CommitRegister(r)

SpecRegister == InitRegister /\ [][NextRegister]_vars

(***************************************************************************)
(* Projects: api/projects.py create_project, with the constraints of       *)
(* models/project.py.  uq_project_repo_name spans (repository_url, name)   *)
(* and no owner column; the database checks it at the INSERT.              *)
(***************************************************************************)
NewProjectIds == {"p1", "p2", "p3"}

ProjectNames == {"vils", "core"}

RepositoryUrls == {"git://a"}

DefaultBranches == {"main", "dev"}

FreeProjectIds == NewProjectIds \ {p.id : p \in projects}

\* Project(name, repository_url, repository_type, default_branch, created_by)
NewProject(id, name, repository_url, default_branch, created_by) ==
    [id |-> id, name |-> name, repository_url |-> repository_url,
     default_branch |-> default_branch, created_by |-> created_by]

\* Branch(project_id, name); the branch is keyed by its project and name.
NewBranch(project_id, name) == [project_id |-> project_id, name |-> name]

\* UniqueConstraint("repository_url", "name", name="uq_project_repo_name")
uq_project_repo_name(rows) ==
    \A x, y \in rows :
        (x.repository_url = y.repository_url /\ x.name = y.name) => x = y

\* The query of create_project: same name, same URL, same owner.
ExistingProjects(u, name, repository_url) ==
    {p \in projects : /\ p.name = name
                      /\ p.repository_url = repository_url
                      /\ p.created_by = u}

ProjectReply(u, name, repository_url, default_branch, code, created) ==
    [Reply("create_project", u, NULL, 0, code, NoBody)
        EXCEPT !.request = <<name, repository_url, default_branch>>,
               !.rows = created]

\* create_project: 400 for the owner's own duplicate; otherwise the INSERT
\* of the project, which raises IntegrityError (uncaught, 500) when the pair
\* exists under any owner, and then the INSERT of the default branch.
CreateProject(u, name, repository_url, default_branch) ==
    /\ FreeProjectIds # {}
    /\ LET project == NewProject(CHOOSE id \in FreeProjectIds : TRUE, name,
                                 repository_url, default_branch, u)
       IN  IF ExistingProjects(u, name, repository_url) # {}
           THEN /\ response' = ProjectReply(u, name, repository_url,
                                            default_branch, Conflict, {})
                /\ UNCHANGED projectVars
           ELSE IF ~uq_project_repo_name(projects \cup {project})
           THEN /\ response' = ProjectReply(u, name, repository_url,
                                            default_branch, ServerError, {})
                /\ UNCHANGED projectVars
           ELSE /\ projects' = projects \cup {project}
                /\ branches' = branches \cup {NewBranch(project.id, default_branch)}
                /\ response' = ProjectReply(u, name, repository_url,
                                            default_branch, Created, {project})
    /\ UNCHANGED <<dbVars, envVars>>
    /\ UNCHANGED <<authVars, sideButProjects, engineVars, progressVars>>

InitProjects ==
    /\ EngineIdle
    /\ ProgressIdle
    /\ ApiIdle
    /\ AuthIdle
    /\ SideIdle

NextProjects ==
    \E u \in Users, name \in ProjectNames, repository_url \in RepositoryUrls,
       default_branch \in DefaultBranches :
          CreateProject(u, name, repository_url, default_branch)

SpecProjects == InitProjects /\ [][NextProjects]_vars

(***************************************************************************)
(* Tag import: api/projects.py import_tags.  The session is made with      *)
(* autoflush=False (database/connection.py), so the existence query of one *)
(* descriptor does not see the rows added for the descriptors before it;   *)
(* all rows are inserted by the one db.commit() after the loop, where the  *)
(* database checks uq_tag_project_name.                                    *)
(***************************************************************************)
ImportNames == {"v1", "v2"}

MaxBatch == 2

\* tags_data, each descriptor given by its name.
Batches == UNION {[1..n -> ImportNames] : n \in 1..MaxBatch}

ImportBranchIds == {"main", "dev", "gone"}

\* The descriptors of the batch for which the query found no tag: the Tag
\* objects the loop adds to the session, by position in the batch.
AddedPositions(project_id, branch_id, tags_data) ==
    {i \in DOMAIN tags_data : TagsNamed(tags_data[i], project_id, branch_id) = {}}

\* Tag(project_id, branch_id, name, sequence_number=i, ...), i counted from 0.
ImportedTag(project_id, branch_id, tags_data, i) ==
    [id |-> tags_data[i], name |-> tags_data[i], project_id |-> project_id,
     branch_id |-> branch_id, sequence_number |-> i - 1]

\* uq_tag_project_name at the commit: the INSERTs are accepted when no two
\* added rows share a name and none takes a name the project's tags have.
CommitAccepted(project_id, branch_id, tags_data) ==
    LET added == AddedPositions(project_id, branch_id, tags_data) IN
        /\ \A i, j \in added : tags_data[i] = tags_data[j] => i = j
        /\ \A i \in added : \A tg \in tags :
              ~(tg.project_id = project_id /\ tg.name = tags_data[i])

ImportBody(imported_count, skipped_count, total_processed) ==
    [imported_count |-> imported_count, skipped_count |-> skipped_count,
     total_processed |-> total_processed]

ImportReply(u, project_id, branch_id, tags_data, code, body) ==
    [Reply("import_tags", u, NULL, Len(tags_data), code, body)
        EXCEPT !.request = <<project_id, branch_id, tags_data>>]

NoImport == ImportBody(0, 0, 0)

ImportTagBatch(u, project_id, branch_id, tags_data) ==
    /\ LET added == AddedPositions(project_id, branch_id, tags_data)
           answer(code, body) ==
               ImportReply(u, project_id, branch_id, tags_data, code, body)
       IN  IF ~OwnedProject(u, project_id) \/ ~BranchOfProject(branch_id, project_id)
           THEN /\ response' = answer(404, NoImport)
                /\ UNCHANGED tags
           ELSE IF ~CommitAccepted(project_id, branch_id, tags_data)
           THEN /\ response' = answer(ServerError, NoImport)
                /\ UNCHANGED tags
           ELSE /\ tags' = tags \cup {ImportedTag(project_id, branch_id, tags_data, i) :
                                        i \in added}
                /\ response' = answer(200,
                      ImportBody(Cardinality(added),
                                 Len(tags_data) - Cardinality(added),
                                 Len(tags_data)))
    /\ UNCHANGED <<tasks, sessions, iterations, build_jobs, feedback, envVars>>
    /\ UNCHANGED <<authVars, sideVars, engineVars, progressVars>>

InitImport ==
    /\ EngineIdle
    /\ ProgressIdle
    /\ ApiIdle
    /\ AuthIdle
    /\ SideIdle

NextImport ==
    \E u \in Users, project_id \in ProjectIds, branch_id \in ImportBranchIds,
       tags_data \in Batches :
          ImportTagBatch(u, project_id, branch_id, tags_data)

SpecImport == InitImport /\ [][NextImport]_vars

(***************************************************************************)
(* SpecCascade: delete_task on tasks that have a session, an iteration, a  *)
(* build job and feedback, between feedback submissions.                   *)
(***************************************************************************)
CascadeTaskIds == {"t1", "t2", "t3"}

CascadeBuildIds == {"b1", "b2"}

\* The feedback alice gave on job b1 of task t1.
SeedFeedback ==
    {NewFeedback("f1", SeedJob("b1", "t1", "i1", "v2"), "alice", "working", NULL)}

InitCascade ==
    /\ tags = SeedTags
    /\ tasks = SeedTasks
    /\ sessions = SeedSessions
    /\ iterations = SeedIterations
    /\ build_jobs = SeedJobs
    /\ feedback = SeedFeedback
    /\ service_configs = {JenkinsConfig}
    /\ inflight = {}
    /\ response = NoRequest
    /\ EngineIdle
    /\ ProgressIdle
    /\ AuthIdle
    /\ SideIdle

NextCascade ==
    \/ \E u \in Users, t \in CascadeTaskIds : DeleteTask(u, t)
    \/ \E u \in Users, b \in CascadeBuildIds, verdict \in Verdicts, notes \in Notes :
          SubmitFeedback(u, b, verdict, notes)

SpecCascade == InitCascade /\ [][NextCascade]_vars

(***************************************************************************)
(* The WebSocket registry: websocket.py ConnectionManager.  connect,       *)
(* send_personal_message and broadcast_to_subscribed are coroutines: each  *)
(* runs without interruption up to an await, and other calls run while it  *)
(* is suspended in await send_text.  An action below is one such stretch:  *)
(* a call up to its first send, or a resumption up to the next send or to  *)
(* the return.  disconnect, subscribe_to_updates and                       *)
(* unsubscribe_from_updates have no await inside.                          *)
(***************************************************************************)
WsUsers == {"alice", "bob"}

SubscriptionKeys == {"task_1"}

\* The send coroutines that may be suspended at once.
MaxSends == 1

SendSlots == 1..MaxSends

FreeSendSlots == {k \in SendSlots : \A s \in sends : s.slot # k}

\* The keys of connection_info, and the entry of a key.
InfoKeys(info) == {info[i].ws : i \in DOMAIN info}

InfoOf(info, websocket) == info[CHOOSE i \in DOMAIN info : info[i].ws = websocket]

Registry == [active |-> active_connections, info |-> connection_info]

\* Mutant of disconnect: the user's set is kept when it becomes empty.
disconnect_KeepsEmptySet(reg, websocket) ==
    IF websocket \notin InfoKeys(reg.info)
    THEN reg
    ELSE LET user_id == InfoOf(reg.info, websocket).user_id
         IN  [active |->
                 IF user_id \in DOMAIN reg.active
                 THEN [reg.active EXCEPT ![user_id] = @ \ {websocket}]
                 ELSE reg.active,
              info |-> SelectSeq(reg.info, LAMBDA e : e.ws # websocket)]

\* disconnect(websocket), as a function of the two dicts.
disconnect(reg, websocket) ==
    IF websocket \notin InfoKeys(reg.info)
    THEN reg
    ELSE LET user_id == InfoOf(reg.info, websocket).user_id
         IN  [active |->
                 IF user_id \in DOMAIN reg.active
                 THEN IF reg.active[user_id] \ {websocket} = {}
                      THEN [u \in DOMAIN reg.active \ {user_id} |-> reg.active[u]]
                      ELSE [reg.active EXCEPT ![user_id] = @ \ {websocket}]
                 ELSE reg.active,
              info |-> SelectSeq(reg.info, LAMBDA e : e.ws # websocket)]

\* for connection in dead_connections: self.disconnect(connection)
RECURSIVE DisconnectAll(_, _)
DisconnectAll(reg, dead_connections) ==
    IF dead_connections = {}
    THEN reg
    ELSE LET connection == CHOOSE c \in dead_connections : TRUE
         IN  DisconnectAll(disconnect(reg, connection),
                           dead_connections \ {connection})

RECURSIVE SumOfLengths(_, _)
SumOfLengths(active, user_ids) ==
    IF user_ids = {}
    THEN 0
    ELSE LET u == CHOOSE u \in user_ids : TRUE
         IN  Cardinality(active[u]) + SumOfLengths(active, user_ids \ {u})

\* sum(len(connections) for connections in self.active_connections.values())
get_connection_count(active) == SumOfLengths(active, DOMAIN active)

\* The first entry, in the dict's order, that the loop of
\* broadcast_to_subscribed has not passed and that holds the key; 0 if none.
NextSubscribed(info, visited, subscription_key) ==
    LET ahead == {i \in DOMAIN info : /\ info[i].ws \notin visited
                                      /\ subscription_key \in info[i].subscriptions}
    IN  IF ahead = {} THEN 0 ELSE CHOOSE i \in ahead : \A j \in ahead : i <= j

\* A send coroutine suspended in await send_text(ws): who called, the
\* connections it set out to reach, those still to come (the copied set of
\* send_personal_message) or already passed (the dict iterator of
\* broadcast_to_subscribed, with the dict's size when the loop began), and
\* the outcome of the sends so far.
Suspended(slot, kind, user_id, key, targeted, remaining, visited, size, ws) ==
    [slot |-> slot, kind |-> kind, user |-> user_id, key |-> key,
     targeted |-> targeted, remaining |-> remaining, visited |-> visited,
     size |-> size, ws |-> ws, delivered |-> {}, dead |-> {}]

Done(kind, user_id, key, websocket, targeted, delivered, dead, outcome) ==
    [NoSend EXCEPT !.kind = kind, !.user = user_id, !.key = key, !.ws = websocket,
                   !.targeted = targeted, !.delivered = delivered, !.dead = dead,
                   !.outcome = outcome]

\* The loop of send_personal_message up to its first send.
BeginPersonal(kind, user_id, active) ==
    \E connection \in active[user_id] :
        sends' = sends \cup
            {Suspended(CHOOSE k \in FreeSendSlots : TRUE, kind, user_id, NULL,
                       active[user_id], active[user_id] \ {connection}, {}, 0,
                       connection)}

\* connect: accept() raises for a socket that is not waiting to be accepted
\* or whose client is gone, and connect returns False; otherwise the socket
\* is registered and the welcome goes out through send_personal_message.
Connect(websocket, user_id, accepted) ==
    /\ FreeSendSlots # {}
    /\ IF ~accepted \/ ws_state[websocket] # "new"
       THEN /\ finished' = Done("connect", user_id, NULL, websocket, {}, {}, {}, "False")
            /\ ws_state' = [ws_state EXCEPT ![websocket] =
                               IF @ = "new" THEN "dead" ELSE @]
            /\ UNCHANGED <<active_connections, connection_info, sends>>
       ELSE LET active ==
                    IF user_id \in DOMAIN active_connections
                    THEN [active_connections EXCEPT ![user_id] = @ \cup {websocket}]
                    ELSE [u \in DOMAIN active_connections \cup {user_id} |->
                             IF u = user_id THEN {websocket}
                             ELSE active_connections[u]]
            IN  /\ ws_state' = [ws_state EXCEPT ![websocket] = "open"]
                /\ active_connections' = active
                /\ connection_info' = Append(connection_info,
                       [ws |-> websocket, user_id |-> user_id, subscriptions |-> {}])
                /\ BeginPersonal("connect", user_id, active)
                /\ UNCHANGED finished
    /\ UNCHANGED <<engineVars, progressVars, apiVars, authVars, sideButSockets>>

Disconnect(websocket) ==
    /\ active_connections' = disconnect(Registry, websocket).active
    /\ connection_info' = disconnect(Registry, websocket).info
    /\ finished' = Done("disconnect", NULL, NULL, websocket, {}, {}, {}, "returned")
    /\ UNCHANGED <<ws_state, sends>>
    /\ UNCHANGED <<engineVars, progressVars, apiVars, authVars, sideButSockets>>

\* The client of an accepted socket goes away: send_text raises from now on.
Break(websocket) ==
    /\ ws_state[websocket] = "open"
    /\ ws_state' = [ws_state EXCEPT ![websocket] = "dead"]
    /\ UNCHANGED <<active_connections, connection_info, sends, finished>>
    /\ UNCHANGED <<engineVars, progressVars, apiVars, authVars, sideButSockets>>

\* subscribe_to_updates / unsubscribe_from_updates as a function of the dict.
subscribe_to_updates(info, websocket, subscription_key) ==
    [i \in DOMAIN info |->
        IF info[i].ws = websocket
        THEN [info[i] EXCEPT !.subscriptions = @ \cup {subscription_key}]
        ELSE info[i]]

unsubscribe_from_updates(info, websocket, subscription_key) ==
    [i \in DOMAIN info |->
        IF info[i].ws = websocket
        THEN [info[i] EXCEPT !.subscriptions = @ \ {subscription_key}]
        ELSE info[i]]

Subscribe(websocket, subscription_key) ==
    /\ connection_info' =
          subscribe_to_updates(connection_info, websocket, subscription_key)
    /\ finished' = Done("subscribe_to_updates", NULL, subscription_key, websocket,
                        {}, {}, {}, "returned")
    /\ UNCHANGED <<active_connections, ws_state, sends>>
    /\ UNCHANGED <<engineVars, progressVars, apiVars, authVars, sideButSockets>>

Unsubscribe(websocket, subscription_key) ==
    /\ connection_info' =
          unsubscribe_from_updates(connection_info, websocket, subscription_key)
    /\ finished' = Done("unsubscribe_from_updates", NULL, subscription_key,
                        websocket, {}, {}, {}, "returned")
    /\ UNCHANGED <<active_connections, ws_state, sends>>
    /\ UNCHANGED <<engineVars, progressVars, apiVars, authVars, sideButSockets>>

\* send_personal_message up to its first send; it returns at once for a
\* user without connections.
SendPersonalMessage(user_id) ==
    /\ FreeSendSlots # {}
    /\ IF user_id \notin DOMAIN active_connections
       THEN /\ finished' = Done("send_personal_message", user_id, NULL, NULL,
                                {}, {}, {}, "returned")
            /\ UNCHANGED sends
       ELSE /\ BeginPersonal("send_personal_message", user_id, active_connections)
            /\ UNCHANGED finished
    /\ UNCHANGED <<active_connections, connection_info, ws_state>>
    /\ UNCHANGED <<engineVars, progressVars, apiVars, authVars, sideButSockets>>

\* broadcast_to_subscribed up to its first send: the loop over
\* connection_info.items() passes the entries without the key.
BroadcastToSubscribed(subscription_key) ==
    /\ FreeSendSlots # {}
    /\ LET next == NextSubscribed(connection_info, {}, subscription_key)
           targeted == {connection_info[i].ws : i \in
                           {j \in DOMAIN connection_info :
                               subscription_key \in connection_info[j].subscriptions}}
       IN  IF next = 0
           THEN /\ finished' = Done("broadcast_to_subscribed", NULL, subscription_key,
                                    NULL, {}, {}, {}, "returned")
                /\ UNCHANGED sends
           ELSE /\ sends' = sends \cup
                      {Suspended(CHOOSE k \in FreeSendSlots : TRUE,
                                 "broadcast_to_subscribed", NULL, subscription_key,
                                 targeted, {},
                                 {connection_info[i].ws : i \in 1..next},
                                 Len(connection_info), connection_info[next].ws)}
                /\ UNCHANGED finished
    /\ UNCHANGED <<active_connections, connection_info, ws_state>>
    /\ UNCHANGED <<engineVars, progressVars, apiVars, authVars, sideButSockets>>

\* A suspended send completes or raises, and the coroutine runs on: to the
\* next send, to the clean-up of the dead connections and the return, or,
\* for the dict iterator of broadcast_to_subscribed, to the RuntimeError
\* that next() raises when the dict's size changed since the loop began.
Resume(s) ==
    /\ s \in sends
    /\ LET sent == ws_state[s.ws] = "open"
           delivered == IF sent THEN s.delivered \cup {s.ws} ELSE s.delivered
           dead == IF sent THEN s.dead ELSE s.dead \cup {s.ws}
           cleaned == DisconnectAll(Registry, dead)
           return ==
               /\ active_connections' = cleaned.active
               /\ connection_info' = cleaned.info
               /\ sends' = sends \ {s}
               /\ finished' = Done(s.kind, s.user, s.key, NULL, s.targeted,
                                   delivered, dead, "returned")
           next == NextSubscribed(connection_info, s.visited, s.key)
       IN  IF s.kind = "broadcast_to_subscribed"
           THEN IF Len(connection_info) # s.size
                THEN /\ sends' = sends \ {s}
                     /\ finished' = Done(s.kind, s.user, s.key, NULL, s.targeted,
                                         delivered, dead, "raised")
                     /\ UNCHANGED <<active_connections, connection_info>>
                ELSE IF next = 0
                THEN return
                ELSE /\ sends' = (sends \ {s}) \cup
                           {[s EXCEPT !.ws = connection_info[next].ws,
                                      !.visited = @ \cup {connection_info[i].ws :
                                                             i \in 1..next},
                                      !.delivered = delivered, !.dead = dead]}
                     /\ UNCHANGED <<active_connections, connection_info, finished>>
           ELSE IF s.remaining = {}
                THEN return
                ELSE \E connection \in s.remaining :
                        /\ sends' = (sends \ {s}) \cup
                              {[s EXCEPT !.ws = connection,
                                         !.remaining = @ \ {connection},
                                         !.delivered = delivered, !.dead = dead]}
                        /\ UNCHANGED <<active_connections, connection_info, finished>>
    /\ UNCHANGED ws_state
    /\ UNCHANGED <<engineVars, progressVars, apiVars, authVars, sideButSockets>>

InitSockets ==
    /\ EngineIdle
    /\ ProgressIdle
    /\ ApiIdle
    /\ AuthIdle
    /\ SideIdle

NextSockets ==
    \/ \E websocket \in Sockets, user_id \in WsUsers, accepted \in BOOLEAN :
          Connect(websocket, user_id, accepted)
    \/ \E websocket \in Sockets : Disconnect(websocket)
    \/ \E websocket \in Sockets : Break(websocket)
    \/ \E websocket \in Sockets, key \in SubscriptionKeys : Subscribe(websocket, key)
    \/ \E websocket \in Sockets, key \in SubscriptionKeys : Unsubscribe(websocket, key)
    \/ \E user_id \in WsUsers : SendPersonalMessage(user_id)
    \/ \E key \in SubscriptionKeys : BroadcastToSubscribed(key)
    \/ \E s \in sends : Resume(s)

SpecSockets == InitSockets /\ [][NextSockets]_vars

(***************************************************************************)
(* handle_websocket_message: the dispatch on the type of an inbound        *)
(* message.  Its replies go out with websocket.send_text on the sending    *)
(* connection, which raises when the client is gone.                       *)
(***************************************************************************)
MessageTypes == {"subscribe", "unsubscribe", "ping", "status"}

\* message_data.get("key"): absent (or empty), or a subscription key.
MessageKeys == {NULL} \cup SubscriptionKeys

\* message_data.get("timestamp"): absent, or a number.
Timestamps == {0, 7}

\* The messages handle_websocket_message sends for an inbound message.
Replies(message) ==
    IF message.type = "subscribe"
    THEN IF message.key # NULL
         THEN <<Message("subscription_confirmed", message.key, 0)>>
         ELSE <<>>
    ELSE IF message.type = "unsubscribe"
    THEN IF message.key # NULL
         THEN <<Message("unsubscription_confirmed", message.key, 0)>>
         ELSE <<>>
    ELSE IF message.type = "ping"
    THEN <<Message("pong", NULL, message.timestamp)>>
    ELSE <<Message("error", NULL, 0)>>

HandleWebsocketMessage(websocket, message) ==
    /\ connection_info' =
          IF message.type = "subscribe" /\ message.key # NULL
          THEN subscribe_to_updates(connection_info, websocket, message.key)
          ELSE IF message.type = "unsubscribe" /\ message.key # NULL
          THEN unsubscribe_from_updates(connection_info, websocket, message.key)
          ELSE connection_info
    /\ finished' =
          [Done("handle_websocket_message", NULL, NULL, websocket, {}, {}, {},
                IF Replies(message) # <<>> /\ ws_state[websocket] # "open"
                THEN "raised" ELSE "returned")
              EXCEPT !.message = message,
                     !.replies = IF ws_state[websocket] = "open"
                                 THEN Replies(message) ELSE <<>>]
    /\ UNCHANGED <<active_connections, ws_state, sends>>
    /\ UNCHANGED <<engineVars, progressVars, apiVars, authVars, sideButSockets>>

InitMessages ==
    /\ EngineIdle
    /\ ProgressIdle
    /\ ApiIdle
    /\ AuthIdle
    /\ SideIdle

NextMessages ==
    \/ \E websocket \in Sockets, user_id \in WsUsers : Connect(websocket, user_id, TRUE)
    \/ \E s \in sends : Resume(s)
    \/ \E websocket \in Sockets : Disconnect(websocket)
    \/ \E websocket \in Sockets : Break(websocket)
    \/ \E websocket \in Sockets, type \in MessageTypes, key \in MessageKeys,
          timestamp \in Timestamps :
             HandleWebsocketMessage(websocket, Message(type, key, timestamp))

SpecMessages == InitMessages /\ [][NextMessages]_vars

(***************************************************************************)
(* run_build: services/build_tasks.py.  One execution of the Celery task   *)
(* marks the job running and commits, runs the build, and either returns   *)
(* (the build's result stored) or reaches the except block, which marks    *)
(* the job failed and commits, notifies the WebSocket clients and then     *)
(* calls self.retry or re-raises.  asyncio.create_task raises RuntimeError *)
(* in a worker that runs no event loop.                                    *)
(***************************************************************************)
\* retry_kwargs={'max_retries': 3}
max_retries == 3

\* countdown=60 * (2 ** self.request.retries)
countdown(retries) == 60 * (2 ^ retries)

\* The time that passes between two looks at the queue.
Beat == 60

\* What the body of the try block comes to: the build and the tests pass,
\* one of them returns a non-zero code, or a step raises.
RunOutcomes == {"success", "failed", "raised"}

\* The worker takes the task: at first delivery, or when the countdown of a
\* retry has passed.  build_job.status = RUNNING; db.commit().
StartRun(j) ==
    /\ \/ build_runs[j].phase = "queued"
       \/ build_runs[j].phase = "waiting" /\ build_runs[j].wait = 0
    /\ build_runs' = [build_runs EXCEPT ![j].status = "running",
                                        ![j].phase = "executing",
                                        ![j].executions = @ + 1]
    /\ UNCHANGED event_loop
    /\ UNCHANGED <<engineVars, progressVars, apiVars, authVars, sideButRuns>>

\* The except block: status FAILED committed, then the notification, which
\* raises without an event loop, then self.retry(countdown=...) while
\* request.retries < max_retries, else the exception is re-raised.
Failure(run) ==
    IF ~event_loop
    THEN [run EXCEPT !.status = "failed", !.phase = "gave_up"]
    ELSE IF run.retries < max_retries
    THEN [run EXCEPT !.status = "failed",
                     !.phase = "waiting",
                     !.delay = countdown(run.retries),
                     !.wait = countdown(run.retries),
                     !.retries = @ + 1]
    ELSE [run EXCEPT !.status = "failed", !.phase = "gave_up"]

\* The execution ends.  Without an event loop the first notification of the
\* try block raises, so the body never returns.
FinishRun(j, outcome) ==
    /\ build_runs[j].phase = "executing"
    /\ ~event_loop => outcome = "raised"
    /\ build_runs' =
          [build_runs EXCEPT ![j] =
              IF outcome = "raised"
              THEN Failure(@)
              ELSE [@ EXCEPT !.status = outcome, !.phase = "returned"]]
    /\ UNCHANGED event_loop
    /\ UNCHANGED <<engineVars, progressVars, apiVars, authVars, sideButRuns>>

\* Time passes for a task that waits for its retry.
Elapse(j) ==
    /\ build_runs[j].phase = "waiting"
    /\ build_runs[j].wait > 0
    /\ build_runs' = [build_runs EXCEPT ![j].wait = @ - Beat]
    /\ UNCHANGED event_loop
    /\ UNCHANGED <<engineVars, progressVars, apiVars, authVars, sideButRuns>>

InitRuns ==
    /\ EngineIdle
    /\ ProgressIdle
    /\ ApiIdle
    /\ AuthIdle
    /\ UsersIdle
    /\ ProjectsIdle
    /\ SocketsIdle
    /\ SessionsIdle
    /\ CryptoIdle
    /\ SignupIdle
    /\ UpdatesIdle
    /\ GitIdle
    /\ build_runs = [j \in RunJobs |-> NotStarted]
    /\ event_loop \in BOOLEAN

NextRuns ==
    \/ \E j \in RunJobs : StartRun(j)
    \/ \E j \in RunJobs, outcome \in RunOutcomes : FinishRun(j, outcome)
    \/ \E j \in RunJobs : Elapse(j)

SpecRuns == InitRuns /\ [][NextRuns]_vars

(***************************************************************************)
(* Database sessions: database/connection.py.  get_database is a plain     *)
(* function whose return sits in a try with finally: db.close(), so the    *)
(* close runs before the caller has the session; a closed Session begins a *)
(* new transaction at its next statement.  get_async_db_context yields the *)
(* session inside async with AsyncSessionLocal(), which closes it on exit. *)
(***************************************************************************)
\* The statements a request runs on its session.
MaxStatements == 2

\* get_database(): db = SessionLocal(); try: return db; finally: db.close()
get_database ==
    [NoSession EXCEPT !.kind = "get_database", !.phase = "handling", !.closes = 1]

\* get_async_db_context up to its yield.
get_async_db_context ==
    [NoSession EXCEPT !.kind = "get_async_db_context", !.phase = "handling"]

\* The rest of get_async_db_context: commit after the body, rollback and
\* re-raise when the body (or the commit) raised, session.close() in the
\* finally, and the close of async with.
ContextExit(session, outcome) ==
    [session EXCEPT !.phase = "finished", !.outcome = outcome,
                    !.commits = IF outcome = "returned" THEN @ + 1 ELSE @,
                    !.rollbacks = IF outcome = "raised" THEN @ + 1 ELSE @,
                    !.closes = @ + 2,
                    !.in_transaction = FALSE]

\* The end of a request that got its session from get_database: nothing
\* runs on the session.
RequestExit(session, outcome) ==
    [session EXCEPT !.phase = "finished", !.outcome = outcome]

GetDatabase(r) ==
    /\ db_sessions[r].phase = "idle"
    /\ db_sessions' = [db_sessions EXCEPT ![r] = get_database]
    /\ UNCHANGED <<engineVars, progressVars, apiVars, authVars, sideButSessions>>

GetAsyncDbContext(r) ==
    /\ db_sessions[r].phase = "idle"
    /\ db_sessions' = [db_sessions EXCEPT ![r] = get_async_db_context]
    /\ UNCHANGED <<engineVars, progressVars, apiVars, authVars, sideButSessions>>

\* A query or a flush of the request: the session begins a transaction if
\* it holds none.
Execute(r) ==
    /\ db_sessions[r].phase = "handling"
    /\ db_sessions[r].statements < MaxStatements
    /\ db_sessions' = [db_sessions EXCEPT ![r].statements = @ + 1,
                                          ![r].in_transaction = TRUE]
    /\ UNCHANGED <<engineVars, progressVars, apiVars, authVars, sideButSessions>>

\* The request or the body of the context returns or raises.
Finish(r, outcome) ==
    /\ db_sessions[r].phase = "handling"
    /\ db_sessions' =
          [db_sessions EXCEPT ![r] =
              IF @.kind = "get_database"
              THEN RequestExit(@, outcome)
              ELSE ContextExit(@, outcome)]
    /\ UNCHANGED <<engineVars, progressVars, apiVars, authVars, sideButSessions>>

InitSessions ==
    /\ EngineIdle
    /\ ProgressIdle
    /\ ApiIdle
    /\ AuthIdle
    /\ SideIdle

NextSessions ==
    \/ \E r \in Requests : GetDatabase(r)
    \/ \E r \in Requests : GetAsyncDbContext(r)
    \/ \E r \in Requests : Execute(r)
    \/ \E r \in Requests, outcome \in {"returned", "raised"} : Finish(r, outcome)

SpecSessions == InitSessions /\ [][NextSessions]_vars

(***************************************************************************)
(* auth/encryption.py: EncryptionService.                                  *)
(*                                                                         *)
(* A str is a sequence of code points, bytes a sequence of numbers below   *)
(* 256.  str.encode() and bytes.decode() are UTF-8: code points below 128  *)
(* take one byte, those below 2048 two, the others three, and a surrogate  *)
(* (0xD800..0xDFFF) has no encoding.                                       *)
(***************************************************************************)
IsSurrogate(cp) == cp >= 55296 /\ cp <= 57343

\* The UTF-8 bytes of one code point.
EncodeCodePoint(cp) ==
    IF cp < 128 THEN <<cp>>
    ELSE IF cp < 2048 THEN <<192 + (cp \div 64), 128 + (cp % 64)>>
    ELSE <<224 + (cp \div 4096), 128 + ((cp \div 64) % 64), 128 + (cp % 64)>>

RECURSIVE EncodeFrom(_, _)
EncodeFrom(chars, i) ==
    IF i > Len(chars) THEN <<>>
    ELSE EncodeCodePoint(chars[i]) \o EncodeFrom(chars, i + 1)

\* str.encode(): UnicodeEncodeError on a surrogate, else the UTF-8 bytes.
encode(chars) ==
    IF \E i \in 1..Len(chars) : IsSurrogate(chars[i])
    THEN [error |-> "UnicodeEncodeError", bytes |-> <<>>]
    ELSE [error |-> "none", bytes |-> EncodeFrom(chars, 1)]

RECURSIVE DecodeFrom(_, _)
DecodeFrom(bytes, i) ==
    IF i > Len(bytes) THEN <<>>
    ELSE IF bytes[i] < 128 THEN <<bytes[i]>> \o DecodeFrom(bytes, i + 1)
    ELSE IF bytes[i] < 224
         THEN <<(bytes[i] - 192) * 64 + (bytes[i + 1] - 128)>>
              \o DecodeFrom(bytes, i + 2)
    ELSE <<(bytes[i] - 224) * 4096 + (bytes[i + 1] - 128) * 64
           + (bytes[i + 2] - 128)>> \o DecodeFrom(bytes, i + 3)

\* bytes.decode() of bytes that str.encode() produced.
decode(bytes) == DecodeFrom(bytes, 1)

(***************************************************************************)
(* The key.  __init__ derives it from the master key with PBKDF2-HMAC over *)
(* a fixed salt.  HMAC pads a key shorter than its block with zero bytes,  *)
(* so master keys that differ in trailing zero bytes only are one HMAC     *)
(* key; the derived key is named by the padded key, here its bytes without *)
(* the trailing zeros.                                                     *)
(***************************************************************************)
RECURSIVE HmacKey(_)
HmacKey(bytes) ==
    IF bytes # <<>> /\ bytes[Len(bytes)] = 0
    THEN HmacKey(SubSeq(bytes, 1, Len(bytes) - 1))
    ELSE bytes

\* EncryptionService(master_key): the Fernet cipher, named by its key.
EncryptionService(master_key) == [key |-> HmacKey(encode(master_key).bytes)]

(***************************************************************************)
(* A Fernet token carries the ciphertext of the data under the key, a      *)
(* fresh IV and an HMAC under the key.  Fernet.decrypt recomputes the HMAC *)
(* and raises InvalidToken unless it is the token's.                       *)
(***************************************************************************)
\* encrypt(plaintext): the token of plaintext.encode(); the encode error
\* is the call's.
encrypt(service, plaintext, iv) ==
    LET encoded == encode(plaintext)
    IN  IF encoded.error # "none"
        THEN [error |-> encoded.error, token |-> NoCiphertext]
        ELSE [error |-> "none",
              token |-> [key |-> service.key, iv |-> iv,
                         data |-> encoded.bytes, doc |-> <<>>]]

decrypt_AnyKey(service, ciphertext) ==
    [error |-> "none", text |-> decode(ciphertext.data)]

\* decrypt(ciphertext): the decoded data of a token made under this key.
decrypt(service, ciphertext) ==
    IF ciphertext.key # service.key
    THEN [error |-> "InvalidToken", text |-> <<>>]
    ELSE [error |-> "none", text |-> decode(ciphertext.data)]

(***************************************************************************)
(* Dictionaries.  A dict is the sequence of its items in insertion order,  *)
(* the keys distinct; a key is a str or an int, a value a str, a list or a *)
(* tuple.  json.dumps writes an int key as the string of its digits and a  *)
(* tuple as an array; with ensure_ascii (the default) the text is ASCII.   *)
(* json.loads builds the dict member by member, a repeated name keeping    *)
(* the last value.                                                         *)
(***************************************************************************)
Item(key, value) == [key |-> key, value |-> value]

\* The members of the JSON object json.dumps(data) writes, in order.
dumps(data) ==
    [i \in 1..Len(data) |->
        Item([type |-> "str", text |-> data[i].key.text],
             [type |-> IF data[i].value.type = "tuple" THEN "list"
                       ELSE data[i].value.type,
              items |-> data[i].value.items])]

\* The dict as a mapping: each key with the value stored last for it.
Mapping(items) ==
    {Item(items[i].key, items[i].value) : i \in
        {i \in 1..Len(items) :
            \A j \in (i + 1)..Len(items) : items[j].key # items[i].key}}

\* json.loads(members): the dict of the members.
loads(members) == Mapping(members)

\* encrypt_dict(data): the token of the JSON text.
encrypt_dict(service, data, iv) ==
    [error |-> "none",
     token |-> [key |-> service.key, iv |-> iv, data |-> <<>>,
                doc |-> dumps(data)]]

\* decrypt_dict(ciphertext): the dict parsed from the decrypted text.
decrypt_dict(service, ciphertext) ==
    IF ciphertext.key # service.key
    THEN [error |-> "InvalidToken", doc |-> {}]
    ELSE [error |-> "none", doc |-> loads(ciphertext.doc)]

(***************************************************************************)
(* SpecCipher: one value encrypted under one master key and decrypted      *)
(* under the same or another one.                                          *)
(***************************************************************************)
CodePoints == {0, 97, 233, 8364, 55296}
MaxChars == 2
Strings == UNION {[1..n -> CodePoints] : n \in 0..MaxChars}
MasterKeys == {<<97>>, <<97, 0>>, <<233>>}
Ivs == {1, 2}
DictKeys == {[type |-> "str", text |-> "1"], [type |-> "int", text |-> "1"],
             [type |-> "str", text |-> "a"]}
DictValues == {[type |-> "str", items |-> <<"x">>],
               [type |-> "list", items |-> <<"x">>],
               [type |-> "tuple", items |-> <<"x">>]}
MaxItems == 2
Dicts ==
    {d \in UNION {[1..n -> {Item(k, v) : k \in DictKeys, v \in DictValues}] :
                    n \in 0..MaxItems} :
        \A i, j \in 1..Len(d) : i # j => d[i].key # d[j].key}

\* decrypt(encrypt(plaintext)) under master_key, the token decrypted by a
\* service made from other_key.
RoundTrip(master_key, other_key, plaintext, iv) ==
    LET encrypted == encrypt(EncryptionService(master_key), plaintext, iv)
        decrypted == decrypt(EncryptionService(other_key), encrypted.token)
    IN  /\ crypto.op = "none"
        /\ crypto' =
              [op |-> "decrypt", master_key |-> master_key,
               other_key |-> other_key, plaintext |-> plaintext,
               data |-> <<>>, token |-> encrypted.token,
               error |-> IF encrypted.error # "none" THEN encrypted.error
                         ELSE decrypted.error,
               text |-> IF encrypted.error # "none" THEN <<>>
                        ELSE decrypted.text,
               doc |-> {}]
        /\ UNCHANGED <<engineVars, progressVars, apiVars, authVars,
                       sideButCrypto>>

\* decrypt_dict(encrypt_dict(data)), likewise.
RoundTripDict(master_key, other_key, data, iv) ==
    LET encrypted == encrypt_dict(EncryptionService(master_key), data, iv)
        decrypted == decrypt_dict(EncryptionService(other_key),
                                  encrypted.token)
    IN  /\ crypto.op = "none"
        /\ crypto' =
              [op |-> "decrypt_dict", master_key |-> master_key,
               other_key |-> other_key, plaintext |-> <<>>, data |-> data,
               token |-> encrypted.token,
               error |-> decrypted.error, text |-> <<>>,
               doc |-> decrypted.doc]
        /\ UNCHANGED <<engineVars, progressVars, apiVars, authVars,
                       sideButCrypto>>

InitCipher ==
    /\ EngineIdle /\ ProgressIdle /\ ApiIdle /\ AuthIdle
    /\ SideIdle

NextCipher ==
    \/ \E master_key, other_key \in MasterKeys, plaintext \in Strings,
          iv \in Ivs :
            RoundTrip(master_key, other_key, plaintext, iv)
    \/ \E master_key, other_key \in MasterKeys, data \in Dicts, iv \in Ivs :
            RoundTripDict(master_key, other_key, data, iv)

SpecCipher == InitCipher /\ [][NextCipher]_vars

(***************************************************************************)
(* api/schemas.py UserCreate: the password field and its validator, run    *)
(* when FastAPI parses the body of POST /register, before register_user.   *)
(***************************************************************************)
min_length == 8

max_length == 128

\* password: str = Field(..., min_length=8, max_length=128)
PasswordField(v) ==
    IF v.length < min_length THEN "min_length"
    ELSE IF v.length > max_length THEN "max_length"
    ELSE "none"

validate_password_NoUppercaseRule(v) ==
    IF v.length < 8 THEN "Password must be at least 8 characters long"
    ELSE IF ~(v.digits > 0) THEN "Password must contain at least one digit"
    ELSE "none"

\* validate_password: the message of the ValueError it raises, or none.
validate_password(v) ==
    IF v.length < 8 THEN "Password must be at least 8 characters long"
    ELSE IF ~(v.digits > 0) THEN "Password must contain at least one digit"
    ELSE IF ~(v.uppers > 0)
         THEN "Password must contain at least one uppercase letter"
    ELSE "none"

\* UserCreate(password=v): the field's constraints, then the validator.
UserCreate(v) ==
    IF PasswordField(v) # "none" THEN PasswordField(v) ELSE validate_password(v)

\* The status of a body that fails validation.
Unprocessable == 422

\* Password lengths around the two limits; Str0ngPass has 10 characters,
\* one digit and two uppercase letters.
PasswordLengths == {0, 7, 8, 10, 128, 129}
MaxMarked == 2
Passwords ==
    {v \in [length : PasswordLengths, digits : 0..MaxMarked,
            uppers : 0..MaxMarked] : v.digits + v.uppers <= v.length}

\* POST /register served by one process: the body is validated; a valid
\* one reaches register_user, which answers 400 for an existing row and
\* otherwise inserts the user and commits.
RegisterUser(email, username, password) ==
    /\ signup' = [password |-> password, error |-> UserCreate(password)]
    /\ IF UserCreate(password) # "none"
       THEN /\ response' = RegisterReply(email, username, Unprocessable, {})
            /\ UNCHANGED users
       ELSE IF ExistingUsers(email, username) # {}
       THEN /\ response' = RegisterReply(email, username, Conflict, {})
            /\ UNCHANGED users
       ELSE LET db_user == UserRow(username, email, TRUE) IN
            /\ users' = users \cup {db_user}
            /\ response' = RegisterReply(email, username, Created, {db_user})
    /\ UNCHANGED <<dbVars, service_configs, inflight>>
    /\ UNCHANGED <<authVars, projectVars, wsVars, runVars, sessionVars,
                   cryptoVars, updateVars, gitVars, engineVars, progressVars>>

InitSignup ==
    /\ EngineIdle
    /\ ProgressIdle
    /\ ApiIdle
    /\ AuthIdle
    /\ SideIdle

NextSignup ==
    \E email \in Emails, username \in Usernames, password \in Passwords :
        RegisterUser(email, username, password)

SpecSignup == InitSignup /\ [][NextSignup]_vars

(***************************************************************************)
(* trigger_builds as the event loop runs it.  The handler is a coroutine   *)
(* that awaits build_service.trigger_build once per tag: between its       *)
(* checks and its db.commit() the loop serves other requests.              *)
(* BeginTrigger is the handler up to the first await, CommitTrigger the    *)
(* dispatches and the commit.                                              *)
(***************************************************************************)
BeginTrigger(u, task_id, iteration_id, build_service, tag_ids) ==
    /\ FreeSlots # {}
    /\ IF OwnedTasks(u, task_id) = {}
       THEN /\ response' = Reply("trigger_builds", u, task_id, 0, 404, NoBody)
            /\ UNCHANGED inflight
       ELSE LET task == CHOOSE tk \in OwnedTasks(u, task_id) : TRUE
                found == RequestedTags(tag_ids, task)
            IN IF task.status # "active"
               THEN /\ response' = Reply("trigger_builds", u, task_id, 0, 400, NoBody)
                    /\ UNCHANGED inflight
               ELSE IF \/ IterationOfTask(iteration_id, task_id) = {}
                       \/ ConfigOf(build_service) = {}
               THEN /\ response' = Reply("trigger_builds", u, task_id, 0, 404, NoBody)
                    /\ UNCHANGED inflight
               ELSE IF Cardinality(found) # Cardinality(tag_ids)
               THEN /\ response' = Reply("trigger_builds", u, task_id, 0, 400, NoBody)
                    /\ UNCHANGED inflight
               ELSE IF ~CanCreateService(build_service)
               THEN /\ response' = Reply("trigger_builds", u, task_id,
                                         Cardinality(tag_ids), 500, NoBody)
                    /\ UNCHANGED inflight
               ELSE /\ inflight' = inflight \cup
                          {[slot |-> CHOOSE k \in FreeSlots : TRUE,
                            op |-> "trigger_builds", user |-> u,
                            task_id |-> task_id, iteration_id |-> iteration_id,
                            build_service |-> build_service,
                            tag_ids |-> {tg.id : tg \in found}]}
                    /\ UNCHANGED response
    /\ UNCHANGED <<dbVars, service_configs>>
    /\ UNCHANGED <<authVars, sideVars, engineVars, progressVars>>

\* The dispatches have returned or raised; the jobs are added and committed.
CommitTrigger(r) ==
    /\ r \in inflight
    /\ r.op = "trigger_builds"
    /\ Cardinality(r.tag_ids) <= Cardinality(FreeBuildIds)
    /\ LET ids == CHOOSE f \in [r.tag_ids -> FreeBuildIds] :
                      \A x, y \in r.tag_ids : x # y => f[x] # f[y]
       IN \E outcome \in [r.tag_ids -> DispatchOutcomes] :
          LET created ==
                {NewBuildJob(ids[tg], r.task_id, r.iteration_id, tg,
                             r.build_service, outcome[tg]) : tg \in r.tag_ids}
          IN /\ build_jobs' = build_jobs \cup created
             /\ response' =
                  [Reply("trigger_builds", r.user, r.task_id,
                         Cardinality(r.tag_ids), 200, NoBody)
                      EXCEPT !.jobs = created]
    /\ inflight' = inflight \ {r}
    /\ UNCHANGED <<tags, tasks, sessions, iterations, feedback, service_configs>>
    /\ UNCHANGED <<authVars, sideVars, engineVars, progressVars>>

(***************************************************************************)
(* SpecTerminal: alice's tasks in every status, each with one stored       *)
(* iteration; candidates, selections and triggers requested on them while  *)
(* she pauses and resumes.  The completed task t3 was created on two tags  *)
(* and completed after v2 was imported between them.                       *)
(***************************************************************************)
TaskStatuses == {"active", "paused", "completed", "failed"}

TerminalTasks ==
    {[SeedTask("active") EXCEPT !.current_iteration = 1],
     [SeedTask("paused") EXCEPT !.id = "t2", !.current_iteration = 1],
     [SeedTask("completed") EXCEPT !.id = "t3", !.current_iteration = 1,
                                   !.total_tags_in_range = 2,
                                   !.final_problematic_tag_id = "v2"],
     [SeedTask("failed") EXCEPT !.id = "t4", !.current_iteration = 1]}

TerminalSessions ==
    {[SeedSession EXCEPT !.task_id = tk.id,
                         !.current_range_end =
                             IF tk.status = "completed" THEN 1 ELSE 2] :
        tk \in TerminalTasks}

\* One stored iteration per task; i1 is the id the next INSERT gets.
TerminalIterations ==
    {SeedIteration("i2", "t1"), SeedIteration("i3", "t2"),
     SeedIteration("i4", "t3"), SeedIteration("i5", "t4")}

TerminalTaskIds == {tk.id : tk \in TerminalTasks}

InitTerminal ==
    /\ tags = SeedTags
    /\ tasks = TerminalTasks
    /\ sessions = TerminalSessions
    /\ iterations = TerminalIterations
    /\ build_jobs = {}
    /\ feedback = {}
    /\ service_configs = {JenkinsConfig}
    /\ inflight = {}
    /\ response = NoRequest
    /\ EngineIdle
    /\ ProgressIdle
    /\ AuthIdle
    /\ SideIdle

NextTerminal ==
    \/ \E t \in TerminalTaskIds : GetCandidates(Owner, t)
    \/ \E t \in TerminalTaskIds : SelectCandidates(Owner, t, MinSelection)
    \/ \E t \in TerminalTaskIds, it \in {x.id : x \in TerminalIterations} :
          BeginTrigger(Owner, t, it, "jenkins", {"v2"})
    \/ \E r \in inflight : CommitTrigger(r)
    \/ \E t \in TerminalTaskIds : PauseTask(Owner, t)
    \/ \E t \in TerminalTaskIds : ResumeTask(Owner, t)

SpecTerminal == InitTerminal /\ [][NextTerminal]_vars

(***************************************************************************)
(* SpecUpdates: websocket.py send_task_update, send_build_update and       *)
(* send_progress_update.  Each builds one message and awaits               *)
(* send_personal_message(message, user_id) and then                        *)
(* broadcast_to_subscribed(message, f"task_{task_id}"); the sockets are    *)
(* connected, subscribed, broken and disconnected while a call is          *)
(* suspended in a send.                                                    *)
(***************************************************************************)
UpdateKinds == {"task_update", "build_update", "progress_update"}

UpdateTaskIds == {"1", "2"}

\* f"task_{task_id}"
TaskKey(task_id) == IF task_id = "1" THEN "task_1" ELSE "task_2"

UpdateOver == update.phase \in {"none", "returned", "raised"}

\* broadcast_to_subscribed(message, key) up to its first send, entered by
\* the call u with the dicts reg.
EnterBroadcast(u, reg) ==
    LET key == TaskKey(u.task_id)
        next == NextSubscribed(reg.info, {}, key)
    IN  IF next = 0
        THEN [u EXCEPT !.phase = "returned", !.ws = NULL, !.dead = {},
                       !.remaining = {}]
        ELSE [u EXCEPT !.phase = "broadcast",
                       !.ws = reg.info[next].ws,
                       !.visited = {reg.info[i].ws : i \in 1..next},
                       !.size = Len(reg.info),
                       !.subscribed = {reg.info[next].ws},
                       !.dead = {}, !.remaining = {}]

\* The call with its suspended send resolved: delivered on an open socket,
\* raised on a dead one.
Resolved(u) ==
    IF ws_state[u.ws] = "open"
    THEN [u EXCEPT !.received = Append(@, u.ws)]
    ELSE [u EXCEPT !.dead = @ \cup {u.ws}]

\* send_task_update / send_build_update / send_progress_update up to the
\* first send: of send_personal_message when the user has connections, of
\* broadcast_to_subscribed otherwise.
SendUpdate(kind, task_id, user_id) ==
    /\ UpdateOver
    /\ LET call == [NoUpdate EXCEPT !.kind = kind, !.task_id = task_id,
                                    !.user = user_id]
       IN  IF user_id \notin DOMAIN active_connections
           THEN update' = EnterBroadcast(call, Registry)
           ELSE \E connection \in active_connections[user_id] :
                   update' = [call EXCEPT
                                 !.phase = "personal",
                                 !.ws = connection,
                                 !.personal = active_connections[user_id],
                                 !.remaining = active_connections[user_id]
                                                  \ {connection}]
    /\ UNCHANGED wsVars
    /\ UNCHANGED <<engineVars, progressVars, apiVars, authVars>>
    /\ UNCHANGED <<userVars, projectVars, runVars, sessionVars, cryptoVars,
                   signupVars, gitVars>>

\* The suspended send of the call completes or raises and the call runs on
\* to its next send or to its end: the personal loop, its clean-up, then
\* the broadcast loop (RuntimeError when the dict changed size under its
\* iterator) and its clean-up.
ResumeUpdate ==
    /\ ~UpdateOver
    /\ LET u == Resolved(update)
           cleaned == DisconnectAll(Registry, u.dead)
       IN  IF update.phase = "personal"
           THEN IF update.remaining # {}
                THEN /\ \E connection \in update.remaining :
                           update' = [u EXCEPT !.ws = connection,
                                               !.remaining = @ \ {connection}]
                     /\ UNCHANGED <<active_connections, connection_info>>
                ELSE /\ active_connections' = cleaned.active
                     /\ connection_info' = cleaned.info
                     /\ update' = EnterBroadcast(u, cleaned)
           ELSE IF Len(connection_info) # update.size
           THEN /\ update' = [u EXCEPT !.phase = "raised", !.ws = NULL]
                /\ UNCHANGED <<active_connections, connection_info>>
           ELSE LET next == NextSubscribed(connection_info, update.visited,
                                           TaskKey(update.task_id))
                IN  IF next = 0
                    THEN /\ active_connections' = cleaned.active
                         /\ connection_info' = cleaned.info
                         /\ update' = [u EXCEPT !.phase = "returned", !.ws = NULL,
                                                !.dead = {}]
                    ELSE /\ update' =
                              [u EXCEPT !.ws = connection_info[next].ws,
                                        !.visited = @ \cup
                                            {connection_info[i].ws : i \in 1..next},
                                        !.subscribed = @ \cup
                                            {connection_info[next].ws}]
                         /\ UNCHANGED <<active_connections, connection_info>>
    /\ UNCHANGED <<ws_state, sends, finished>>
    /\ UNCHANGED <<engineVars, progressVars, apiVars, authVars>>
    /\ UNCHANGED <<userVars, projectVars, runVars, sessionVars, cryptoVars,
                   signupVars, gitVars>>

InitUpdates ==
    /\ EngineIdle
    /\ ProgressIdle
    /\ ApiIdle
    /\ AuthIdle
    /\ SideIdle

NextUpdates ==
    \/ \E websocket \in Sockets, user_id \in WsUsers :
          Connect(websocket, user_id, TRUE)
    \/ \E websocket \in Sockets : Disconnect(websocket)
    \/ \E websocket \in Sockets : Break(websocket)
    \/ \E websocket \in Sockets, key \in SubscriptionKeys : Subscribe(websocket, key)
    \/ \E websocket \in Sockets, key \in SubscriptionKeys : Unsubscribe(websocket, key)
    \/ \E s \in sends : Resume(s)
    \/ \E kind \in UpdateKinds, task_id \in UpdateTaskIds :
          SendUpdate(kind, task_id, Owner)
    \/ ResumeUpdate

SpecUpdates == InitUpdates /\ [][NextUpdates]_vars

(***************************************************************************)
(* SpecGit: the Celery tasks of services/git_tasks.py.  A task is          *)
(* submitted once; a worker runs its body when the countdown of the last   *)
(* self.retry has run out; the body meets one of the outcomes its git      *)
(* commands can have.                                                      *)
(***************************************************************************)
\* What a run of the body meets: every command succeeds ("ok"); an
\* exception inside the try block, such as a failed clone or a timeout
\* ("raised"); for validate_commit a commit that does not exist, answered
\* inside the try block ("absent"); for get_commit_diff and
\* analyze_repository a git command after the clone that exits non-zero and
\* whose return code is only used to leave a field empty ("command_failed").
GitOutcomes(name) ==
    CASE name = "fetch_commit_list" -> {"ok", "raised"}
      [] name = "validate_commit" -> {"ok", "absent", "raised"}
      [] name = "get_commit_diff" -> {"ok", "command_failed", "raised"}
      [] name = "analyze_repository" -> {"ok", "command_failed", "raised"}

\* Task.max_retries of a task declared without max_retries.
DefaultMaxRetries == 3

Finished(run, outcome, result) ==
    [run EXCEPT !.status = "done", !.executions = @ + 1, !.outcome = outcome,
                !.result = result]

\* raise self.retry(countdown=seconds): the task is sent again with
\* retries + 1, due after the countdown; over max_retries the exception
\* is raised instead.
retry(run, outcome, seconds) ==
    IF run.retries + 1 > DefaultMaxRetries
    THEN Finished(run, outcome, "raised")
    ELSE [run EXCEPT !.status = "queued", !.executions = @ + 1,
                     !.outcome = outcome,
                     !.retries = @ + 1,
                     !.countdown = seconds,
                     !.delays = Append(@, seconds)]

\* except Exception: if self.request.retries < 3:
\*     raise self.retry(countdown=60 * (2 ** self.request.retries))
\* raise
fetch_commit_list(run, outcome) ==
    IF outcome = "ok"
    THEN Finished(run, outcome, "commits")
    ELSE IF run.retries < 3
         THEN retry(run, outcome, 60 * (2 ^ run.retries))
         ELSE Finished(run, outcome, "raised")

\* except Exception: if self.request.retries < 2:
\*     raise self.retry(countdown=30 * (2 ** self.request.retries))
\* return {"valid": False, "error": str(e)}
validate_commit(run, outcome) ==
    IF outcome = "ok"
    THEN Finished(run, outcome, "valid")
    ELSE IF outcome = "absent"
    THEN Finished(run, outcome, "not_valid")
    ELSE IF run.retries < 2
         THEN retry(run, outcome, 30 * (2 ^ run.retries))
         ELSE Finished(run, outcome, "not_valid")

\* return {"success": True, "stats": ... if returncode == 0 else "", ...}
\* except Exception: return {"success": False, "error": str(e)}
get_commit_diff(run, outcome) ==
    IF outcome = "raised"
    THEN Finished(run, outcome, "success_false")
    ELSE Finished(run, outcome, "success_true")

\* return analysis (fields of a failed command left empty)
\* except Exception: return {"success": False, "error": str(e), ...}
analyze_repository(run, outcome) ==
    IF outcome = "raised"
    THEN Finished(run, outcome, "success_false")
    ELSE Finished(run, outcome, "analysis")

\* task.delay(...): the task is queued, due at once.
SubmitGit(name) ==
    /\ git_runs[name].status = "none"
    /\ git_runs' = [git_runs EXCEPT ![name] = [@ EXCEPT !.status = "queued"]]
    /\ UNCHANGED <<engineVars, progressVars, apiVars, authVars, sideButGit>>

\* A worker runs the body of a task that is due.
RunGit(name, outcome) ==
    /\ git_runs[name].status = "queued"
    /\ git_runs[name].countdown = 0
    /\ git_runs' = [git_runs EXCEPT ![name] =
          CASE name = "fetch_commit_list" -> fetch_commit_list(@, outcome)
            [] name = "validate_commit" -> validate_commit(@, outcome)
            [] name = "get_commit_diff" -> get_commit_diff(@, outcome)
            [] name = "analyze_repository" -> analyze_repository(@, outcome)]
    /\ UNCHANGED <<engineVars, progressVars, apiVars, authVars, sideButGit>>

\* Time passes until the next retry is due.
WaitGit ==
    /\ \E name \in GitTasks : git_runs[name].countdown > 0
    /\ LET running == {git_runs[name].countdown : name \in GitTasks} \ {0}
           elapsed == CHOOSE c \in running : \A other \in running : c <= other
       IN  git_runs' = [name \in GitTasks |->
              [git_runs[name] EXCEPT !.countdown =
                  IF @ > elapsed THEN @ - elapsed ELSE 0]]
    /\ UNCHANGED <<engineVars, progressVars, apiVars, authVars, sideButGit>>

InitGit ==
    /\ EngineIdle
    /\ ProgressIdle
    /\ ApiIdle
    /\ AuthIdle
    /\ SideIdle

NextGit ==
    \/ \E name \in GitTasks : SubmitGit(name)
    \/ \E name \in GitTasks : \E outcome \in GitOutcomes(name) :
          RunGit(name, outcome)
    \/ WaitGit

SpecGit == InitGit /\ [][NextGit]_vars

(***************************************************************************)
(* Claims about the engine.                                                *)
(***************************************************************************)
Positions(result) == [k \in DOMAIN result.candidates |-> result.candidates[k].position]

StrictlyAscending(s) == \A i, j \in DOMAIN s : i < j => s[i] < s[j]

\* C1: with bad_index - good_index - 1 > 10, generate_candidates returns
\* exactly 10 candidates, strictly ascending by position (so none twice),
\* every position strictly between the two indices, each carrying the tag
\* at its position; good_index = 0, bad_index = 24 gives
\* [2, 4, 6, 8, 10, 13, 15, 17, 19, 21].
C1_TenCandidates ==
    (e_op = "generate_candidates" /\ e_bad - e_good - 1 > 10) =>
        /\ e_result.error = "none"
        /\ Len(e_result.candidates) = 10
        /\ StrictlyAscending(Positions(e_result))
        /\ \A k \in DOMAIN e_result.candidates :
            /\ e_result.candidates[k].position > e_good
            /\ e_result.candidates[k].position < e_bad
            /\ e_result.candidates[k].tag = FixtureTags[e_result.candidates[k].position + 1].id
        /\ (e_good = 0 /\ e_bad = 24) =>
              Positions(e_result) = <<2, 4, 6, 8, 10, 13, 15, 17, 19, 21>>

C1_Witness ==
    /\ e_op = "generate_candidates"
    /\ e_good = 0 /\ e_bad = 24
    /\ Len(e_result.candidates) = 10

\* C2: with good_index < bad_index, at least one tag in between and at most
\* 10, generate_candidates returns exactly the positions good_index + 1 ..
\* bad_index - 1, in order, each once; good_index = 5, bad_index = 9 gives
\* [6, 7, 8].
C2_SmallRangeEnumerated ==
    (/\ e_op = "generate_candidates"
     /\ e_bad - e_good - 1 >= 1
     /\ e_bad - e_good - 1 <= 10) =>
        /\ e_result.error = "none"
        /\ Positions(e_result) = [k \in 1..(e_bad - e_good - 1) |-> e_good + k]
        /\ \A k \in DOMAIN e_result.candidates :
            e_result.candidates[k].tag = FixtureTags[e_good + k + 1].id

C2_Witness ==
    /\ e_op = "generate_candidates"
    /\ e_good = 5 /\ e_bad = 9
    /\ Positions(e_result) = <<6, 7, 8>>

\* C6: is_complete(g, b) is true if and only if b - g = 1: false for larger
\* gaps, for b = g and for b < g.
C6_CompleteIffAdjacent ==
    e_op = "is_complete" =>
        /\ (e_result <=> (e_bad - e_good = 1))
        /\ (e_bad - e_good > 1 => ~e_result)
        /\ (e_bad - e_good <= 0 => ~e_result)

C6_Witness ==
    /\ e_op = "is_complete"
    /\ e_bad = e_good + 1
    /\ e_result

\* The position of a fixture tag, from its id alone; ids outside are unknown.
KnownId(id) == id \in 1..(MaxIndex + 1)

\* C7: update_range never lowers good_index and never raises bad_index; when
\* every "working" verdict is on an unknown id or a tag at or below the good
\* index, the good index is unchanged; when every "broken" verdict is on an
\* unknown id or a tag at or above the bad index, the bad index is
\* unchanged; verdicts with any other value change nothing.
C7_RangeOnlyNarrows ==
    e_op = "update_range" =>
        /\ e_result[1] >= e_good
        /\ e_result[2] <= e_bad
        /\ (\A id \in DOMAIN e_feedback :
                e_feedback[id] = "working" => (~KnownId(id) \/ id - 1 <= e_good))
           => e_result[1] = e_good
        /\ (\A id \in DOMAIN e_feedback :
                e_feedback[id] = "broken" => (~KnownId(id) \/ id - 1 >= e_bad))
           => e_result[2] = e_bad

C7_Witness ==
    /\ e_op = "update_range"
    /\ \E id \in DOMAIN e_feedback :
        /\ e_feedback[id] = "working" /\ KnownId(id) /\ id - 1 < e_good
    /\ \E id \in DOMAIN e_feedback :
        /\ e_feedback[id] = "broken" /\ KnownId(id) /\ id - 1 > e_bad
    /\ e_result = <<e_good, e_bad>>

(***************************************************************************)
(* Claims about calculate_progress.                                        *)
(***************************************************************************)
StrictBetween(c) == c.bad_index - c.good_index - 1

Less(x, y) == x.num * y.den < y.num * x.den

IsHundred(x) == x.num = 100 * x.den

IsZero(x) == x.num = 0

ProgressBasics ==
    \A k \in DOMAIN p_calls :
        /\ p_calls[k].progress.den > 0
        /\ p_calls[k].progress.num >= 0
        /\ p_calls[k].progress.num <= 100 * p_calls[k].progress.den
        /\ (p_total <= 1 \/ StrictBetween(p_calls[k]) <= 0)
              => IsHundred(p_calls[k].progress)

\* C8 as stated: for a fixed total_tags, whenever the strictly-between range
\* of one call is smaller than that of another, its progress is strictly
\* larger or is 100; the result is 100 when total_tags <= 1 or the range
\* has collapsed; the result lies in [0, 100].
C8_Original_StrictlyIncreases ==
    /\ ProgressBasics
    /\ \A i, j \in DOMAIN p_calls :
        StrictBetween(p_calls[j]) < StrictBetween(p_calls[i]) =>
            \/ Less(p_calls[i].progress, p_calls[j].progress)
            \/ IsHundred(p_calls[j].progress)

\* C8 amended: as C8, except that while the smaller range is still at least
\* total_tags the progress stays at 0 (the clamp); progress never decreases
\* when the range shrinks.
C8_IncreasesUnlessClampedToZero ==
    /\ ProgressBasics
    /\ \A i, j \in DOMAIN p_calls :
        StrictBetween(p_calls[j]) < StrictBetween(p_calls[i]) =>
            /\ ~Less(p_calls[j].progress, p_calls[i].progress)
            /\ \/ Less(p_calls[i].progress, p_calls[j].progress)
               \/ IsHundred(p_calls[j].progress)
               \/ /\ StrictBetween(p_calls[j]) >= p_total
                  /\ IsZero(p_calls[i].progress)
                  /\ IsZero(p_calls[j].progress)

C8_Witness ==
    /\ Len(p_calls) = 2
    /\ p_total > 1
    /\ StrictBetween(p_calls[2]) < StrictBetween(p_calls[1])
    /\ StrictBetween(p_calls[2]) > 0
    /\ Less(p_calls[1].progress, p_calls[2].progress)
    /\ ~IsHundred(p_calls[2].progress)

(***************************************************************************)
(* Claims about the task endpoints.                                        *)
(***************************************************************************)
TaskRows(t) == {tk \in tasks : tk.id = t}

\* The task a response addresses, as the caller sees it, before the step.
Addressed == {tk \in tasks : tk.id = response'.task /\ tk.user_id = response'.user}

StoredRange(t) == {x \in sessions : x.task_id = t}

AdjacentStored(t) ==
    \E x \in StoredRange(t) : x.current_range_end - x.current_range_start = 1

\* The tags candidate retrieval loads for a task.
LoadedTags(tk) ==
    {tg \in tags : /\ tg.project_id = tk.project_id
                   /\ tg.branch_id = tk.branch_id
                   /\ tg.sequence_number # NoSeq
                   /\ \E g \in tags : /\ g.id = tk.good_tag_id
                                      /\ g.sequence_number # NoSeq
                                      /\ g.sequence_number <= tg.sequence_number
                   /\ \E b \in tags : /\ b.id = tk.bad_tag_id
                                      /\ b.sequence_number # NoSeq
                                      /\ tg.sequence_number <= b.sequence_number}

\* C3: an active task of the owner with at least three tags in range and a
\* stored range that is not yet adjacent is, with the round repeated,
\* eventually completed.
C3_RoundsReachCompletion ==
    \A t \in TaskIds :
        (\E tk \in TaskRows(t) :
            /\ tk.user_id = Owner
            /\ tk.status = "active"
            /\ Cardinality(LoadedTags(tk)) >= 3
            /\ \E x \in StoredRange(t) :
                  x.current_range_end - x.current_range_start > 1)
        ~> (\E tk \in TaskRows(t) : tk.status = "completed")

\* C4: a task's status changes only active -> paused by a successful pause,
\* paused -> active by a successful resume, and active -> completed by
\* candidate retrieval on an adjacent stored range; a pause of a task that is
\* not active and a resume of a task that is not paused answer 400 and
\* change no task; a completed task keeps its status; no status is failed.
C4_Step ==
    /\ \A t \in TaskIds : \A a \in TaskRows(t) : \A b \in {tk \in tasks' : tk.id = t} :
        /\ b.status # "failed"
        /\ \/ a.status = b.status
           \/ /\ a.status = "active" /\ b.status = "paused"
              /\ response'.op = "pause_task" /\ response'.code = 200
           \/ /\ a.status = "paused" /\ b.status = "active"
              /\ response'.op = "resume_task" /\ response'.code = 200
           \/ /\ a.status = "active" /\ b.status = "completed"
              /\ response'.op = "get_candidates" /\ response'.code = 200
              /\ AdjacentStored(t)
    /\ (response'.op = "pause_task" /\ \E tk \in Addressed : tk.status # "active")
          => (response'.code = 400 /\ tasks' = tasks)
    /\ (response'.op = "resume_task" /\ \E tk \in Addressed : tk.status # "paused")
          => (response'.code = 400 /\ tasks' = tasks)
    /\ \A tk \in tasks' : tk \notin tasks => tk.status # "failed"

C4_StatusTransitions == [][C4_Step]_vars

C4_Witness ==
    /\ response.op = "pause_task"
    /\ response.code = 400
    /\ \E tk \in tasks : tk.id = response.task /\ tk.status = "completed"

\* The tag is at position index of the loaded tags in ascending sequence
\* number, whatever order equal numbers come in.
AtIndexBySeq(tag_id, index, rows) ==
    \E tg \in rows :
        /\ tg.id = tag_id
        /\ Cardinality({x \in rows : x.sequence_number < tg.sequence_number}) <= index
        /\ index < Cardinality({x \in rows : x.sequence_number <= tg.sequence_number})

CompletesWithBadIndexTag(tk) ==
    /\ response'.code = 200
    /\ response'.body.is_complete
    /\ response'.body.candidates = <<>>
    /\ \E after \in tasks' :
        /\ after.id = tk.id
        /\ after.status = "completed"
        /\ after.final_problematic_tag_id = response'.body.problematic_tag
        /\ \E x \in StoredRange(tk.id) :
              AtIndexBySeq(after.final_problematic_tag_id, x.current_range_end,
                           LoadedTags(tk))

Named(k) ==
    {tg \in tags : /\ tg.name = response'.request[k]
                   /\ tg.project_id = response'.request[1]
                   /\ tg.branch_id = response'.request[2]}

CountedTags(good, bad) ==
    {tg \in tags : /\ tg.project_id = good.project_id
                   /\ tg.branch_id = good.branch_id
                   /\ tg.sequence_number # NoSeq
                   /\ good.sequence_number <= tg.sequence_number
                   /\ tg.sequence_number <= bad.sequence_number}

\* C9: create_task by the project's owner naming a good and a bad tag of the
\* project and branch, both with a sequence number: with good >= bad it
\* answers 400 and stores no task and no session; with good < bad it answers
\* 201 and stores one task, active, current_iteration 0, total_tags_in_range
\* the number of tags of the project and branch numbered in [good, bad].
C9_Step ==
    response'.op = "create_task" =>
        \A good \in Named(3) : \A bad \in Named(4) :
            (/\ OwnedProject(response'.user, response'.request[1])
             /\ good.sequence_number # NoSeq
             /\ bad.sequence_number # NoSeq)
            => IF good.sequence_number >= bad.sequence_number
               THEN /\ response'.code = 400
                    /\ tasks' = tasks
                    /\ sessions' = sessions
               ELSE /\ response'.code = 201
                    /\ \E tk \in tasks' :
                        /\ tasks' = tasks \cup {tk}
                        /\ tk \notin tasks
                        /\ tk.id = response'.task
                        /\ tk.status = "active"
                        /\ tk.current_iteration = 0
                        /\ tk.good_tag_id = good.id
                        /\ tk.bad_tag_id = bad.id
                        /\ tk.total_tags_in_range = Cardinality(CountedTags(good, bad))

C9_CreateTaskOrdering == [][C9_Step]_vars

C9_Witness ==
    /\ response.op = "create_task"
    /\ response.code = 201
    /\ \E tk \in tasks :
        /\ tk.id = response.task
        /\ tk.total_tags_in_range = 2
        /\ \E tg \in tags, good \in tags, bad \in tags :
            /\ good.id = tk.good_tag_id
            /\ bad.id = tk.bad_tag_id
            /\ tg.branch_id # tk.branch_id
            /\ tg.sequence_number # NoSeq
            /\ good.sequence_number <= tg.sequence_number
            /\ tg.sequence_number <= bad.sequence_number

\* C10: select-candidates on an owned, active task with 3, 4 or 5 indices
\* answers 200, stores exactly one new TaskIteration numbered
\* current_iteration + 1, raises current_iteration by 1 and stores no
\* BuildJob; with fewer than 3 or more than 5 it is rejected and stores no
\* TaskIteration and changes no task.
C10_Step ==
    response'.op = "select_candidates" =>
        /\ \A tk \in Addressed :
            (tk.status = "active" /\ response'.n >= 3 /\ response'.n <= 5) =>
                /\ response'.code = 200
                /\ \E it \in iterations' :
                    /\ iterations' = iterations \cup {it}
                    /\ it \notin iterations
                    /\ it.task_id = tk.id
                    /\ it.iteration_number = tk.current_iteration + 1
                    /\ it.selected_count = response'.n
                /\ tasks' = (tasks \ {tk}) \cup
                      {[tk EXCEPT !.current_iteration = tk.current_iteration + 1]}
                /\ build_jobs' = build_jobs
        /\ (response'.n < 3 \/ response'.n > 5) =>
                /\ response'.code \in {400, 422}
                /\ iterations' = iterations
                /\ tasks' = tasks

C10_SelectionRecorded == [][C10_Step]_vars

(***************************************************************************)
(* Claims about concurrent selections.                                     *)
(***************************************************************************)
IterationsOf(task_id) == {it \in iterations : it.task_id = task_id}

\* C11: under any interleaving of select-candidates requests the persisted
\* iterations of a task have pairwise distinct numbers; a request that
\* commits a number no iteration of the task has yet reports success and has
\* persisted its own iteration, numbered above every earlier one; a request
\* reports success only so.
C11_Commit ==
    (/\ response'.op = "select_candidates"
     /\ response'.code \in {200, 500}
     /\ inflight' \subseteq inflight
     /\ inflight' # inflight) =>
        LET number == response'.request[1]
            taken == \E it \in IterationsOf(response'.task) :
                        it.iteration_number = number
        IN /\ ~taken =>
                /\ response'.code = 200
                /\ \E it \in iterations' :
                    /\ iterations' = iterations \cup {it}
                    /\ it \notin iterations
                    /\ it.task_id = response'.task
                    /\ it.iteration_number = number
                    /\ \A old \in IterationsOf(response'.task) :
                          old.iteration_number < it.iteration_number
           /\ taken => response'.code = 500 /\ iterations' = iterations

BuildStep(op) == response'.op = op /\ service_configs' = service_configs

\* A trigger request that passed every check of lines 47-109.
TriggerValidated == BuildStep("trigger_builds") /\ response'.request # <<>>

JobsOfTag(jobs, tag_id) == {j \in jobs : j.tag_id = tag_id}

\* The request created exactly one job per requested tag and one dispatch
\* per tag, all of them new rows, and returned them.
OneJobPerTag ==
    /\ response'.code = 200
    /\ Cardinality(response'.jobs) = Cardinality(response'.request[3])
    /\ response'.jobs \cap build_jobs = {}
    /\ build_jobs' = build_jobs \cup response'.jobs
    /\ \A tag_id \in response'.request[3] :
        /\ Cardinality(JobsOfTag(response'.jobs, tag_id)) = 1
        /\ Cardinality({c \in response'.external : c.arg = tag_id}) = 1
    /\ \A c \in response'.external :
        c.call = "trigger_build" /\ c.arg \in response'.request[3]

C12_Original_Step ==
    TriggerValidated =>
        /\ OneJobPerTag
        /\ \A c \in response'.external : \A j \in JobsOfTag(response'.jobs, c.arg) :
            IF c.outcome = "raised"
            THEN j.status = "failed" /\ j.external_build_id = NULL
            ELSE j.status = "pending" /\ j.external_build_id # NULL

C12_Step ==
    TriggerValidated =>
        IF ~CanCreateService(response'.request[2])
        THEN /\ response'.code = 500
             /\ build_jobs' = build_jobs
             /\ response'.jobs = {}
             /\ response'.external = {}
        ELSE /\ OneJobPerTag
             /\ \A c \in response'.external :
                \A j \in JobsOfTag(response'.jobs, c.arg) :
                    /\ c.outcome = "queued" =>
                         j.status = "pending" /\ j.external_build_id # NULL
                    /\ c.outcome = "no_build_id" =>
                         j.status = "pending" /\ j.external_build_id = NULL
                    /\ c.outcome = "raised" =>
                         j.status = "failed" /\ j.external_build_id = NULL

TaskOwnedBy(u, task_id) == \E tk \in tasks : tk.id = task_id /\ tk.user_id = u

TaskIsActive(task_id) == \E tk \in tasks : tk.id = task_id /\ tk.status = "active"

IterationBelongs(iteration_id, task_id) ==
    \E it \in iterations : it.id = iteration_id /\ it.task_id = task_id

ActiveConfigExists(build_service) ==
    \E c \in service_configs : c.service_name = build_service

TagsBelong(tag_ids, task_id) ==
    \A tag_id \in tag_ids : \E tg \in tags, tk \in tasks :
        /\ tg.id = tag_id
        /\ tk.id = task_id
        /\ tg.project_id = tk.project_id
        /\ tg.branch_id = tk.branch_id

C13_Step ==
    BuildStep("trigger_builds") =>
        /\ response'.code = 200 =>
            /\ TaskOwnedBy(response'.user, response'.task)
            /\ TaskIsActive(response'.task)
            /\ IterationBelongs(response'.request[1], response'.task)
            /\ ActiveConfigExists(response'.request[2])
            /\ TagsBelong(response'.request[3], response'.task)
        /\ response'.code # 200 =>
            /\ build_jobs' = build_jobs
            /\ response'.jobs = {}
            /\ response'.external = {}

\* C13: a trigger request is accepted only if the task is owned by the
\* caller and active, the iteration belongs to the task, an active
\* ServiceConfig exists for the requested service and every requested tag
\* belongs to the task's project and branch; a request that is not accepted
\* creates no BuildJob and dispatches nothing.
C13_TriggerValidation == [][C13_Step]_vars

\* alice's active task with its own iteration and jenkins configured: the
\* request is rejected for a tag of another branch, after builds were stored.
C13_Witness ==
    /\ response.op = "trigger_builds"
    /\ response.user = "alice"
    /\ response.task = "t1"
    /\ response.code = 400
    /\ TaskIsActive("t1")
    /\ ActiveConfigExists("jenkins")
    /\ build_jobs # {}

\* pending -> running -> terminal
StatusRank(status) ==
    IF status = "pending" THEN 0 ELSE IF status = "running" THEN 1 ELSE 2

C14_Step ==
    \A old \in build_jobs : \A new \in build_jobs' :
        old.id = new.id =>
            /\ StatusRank(new.status) >= StatusRank(old.status)
            /\ old.status \in TerminalStatuses => new.status = old.status

\* C14: over status polls and cancel calls the stored status of a build job
\* only moves forward along pending -> running -> terminal: a running job is
\* never pending again and a job in success, failed or cancelled keeps its
\* status.
C14_StatusForward == [][C14_Step]_vars

\* The stored job a build request addressed, as it was before the request.
JobBefore == {j \in build_jobs : j.id = response'.build}

JobAfter == {j \in build_jobs' : j.id = response'.build}

Contacted(call) == \E c \in response'.external : c.call = call

\* What a served status request does apart from deciding whether to poll.
C15_PollEffects(job) ==
    /\ \A c \in response'.external :
        /\ c.call = "get_build_status"
        /\ c.arg = job.id
        /\ c.outcome = "raised" =>
            /\ response'.code = 200
            /\ response'.jobs = {job}
            /\ build_jobs' = build_jobs
    /\ ~Contacted("get_build_status") =>
            /\ response'.jobs = {job}
            /\ build_jobs' = build_jobs
    /\ \A new \in JobAfter :
        /\ response'.jobs = {new}
        /\ (new.status \in TerminalStatuses /\ job.status \notin TerminalStatuses)
              => new.completed_at # NULL
        /\ new.status = job.status => new.completed_at = job.completed_at

C15_Original_Step ==
    (BuildStep("get_build_status") /\ response'.code = 200) =>
        \A job \in JobBefore :
            /\ Contacted("get_build_status")
                 <=> (job.status \in {"pending", "running"}
                      /\ job.external_build_id # NULL)
            /\ C15_PollEffects(job)

\* C15 as stated: the external service is contacted exactly when the stored
\* status is pending or running and an external build id is recorded.
C15_Original_PollWhenOpen == [][C15_Original_Step]_vars

C15_Step ==
    (BuildStep("get_build_status") /\ response'.code = 200) =>
        \A job \in JobBefore :
            /\ Contacted("get_build_status")
                 <=> (/\ job.status \in {"pending", "running"}
                      /\ job.external_build_id # NULL
                      /\ \E c \in service_configs :
                            c.service_name = job.build_service /\ c.usable)
            /\ C15_PollEffects(job)

\* C15: get_build_status contacts the external service if and only if the
\* stored status is pending or running, an external build id is recorded and
\* an active ServiceConfig of the job's build service exists from which the
\* service can be instantiated; when the poll raises the request answers 200
\* with the stored job, status and completed_at unchanged; when a poll makes
\* the job success, failed or cancelled, completed_at is set in that update.
C15_PollWhenOpen == [][C15_Step]_vars

C15_Witness ==
    /\ response.op = "get_build_status"
    /\ response.code = 200
    /\ \E c \in response.external : c.outcome = "success"
    /\ \E j \in build_jobs :
        /\ j.id = response.build
        /\ j.status = "success"
        /\ j.completed_at = Stamped
        /\ response.jobs = {j}

JobOwnedBy(job, u) == \E tk \in tasks : tk.id = job.task_id /\ tk.user_id = u

C16_Step ==
    BuildStep("cancel_build") =>
        \A job \in JobBefore :
            JobOwnedBy(job, response'.user) =>
                /\ response'.code = 200
                /\ IF job.status \in {"pending", "running"}
                   THEN /\ \E new \in JobAfter :
                            /\ new.status = "cancelled"
                            /\ new.completed_at # NULL
                            /\ build_jobs' = (build_jobs \ {job}) \cup {new}
                        /\ Contacted("cancel_build") => job.external_build_id # NULL
                   ELSE /\ response'.request = <<"already completed">>
                        /\ response'.external = {}
                        /\ build_jobs' = build_jobs

\* C16: cancel_build by the owner on a pending or running job leaves the job
\* cancelled with a completed_at, whether the external cancellation succeeds,
\* is refused, raises or is not attempted; on a job in success, failed or
\* cancelled it is answered "Build is already completed", contacts nothing
\* and changes neither status nor completed_at.
C16_CancelAlwaysCancels == [][C16_Step]_vars

\* A running job with an external id whose external cancellation raised.
C16_Witness ==
    /\ response.op = "cancel_build"
    /\ response.code = 200
    /\ \E c \in response.external : c.outcome = "raised"
    /\ \E j \in build_jobs :
        /\ j.id = response.build
        /\ j.status = "cancelled"
        /\ j.completed_at = Stamped

(***************************************************************************)
(* Claims about feedback.                                                  *)
(***************************************************************************)
FeedbackOf(rows, build_id) == {x \in rows : x.build_job_id = build_id}

C17_Step ==
    response'.op = "submit_feedback" =>
        /\ (\E j \in build_jobs : j.id = response'.build
                                  /\ JobOwnedBy(j, response'.user))
              => response'.code = 200
        /\ response'.code = 200 =>
            /\ \E row \in feedback' :
                /\ FeedbackOf(feedback', response'.build) = {row}
                /\ row.feedback_type = response'.request[1]
                /\ row.notes = response'.request[2]
            /\ \A x \in feedback : x.build_job_id # response'.build => x \in feedback'
            /\ Cardinality(feedback') <= Cardinality(feedback) + 1

\* C17: every feedback submission of the owner, made one after the other,
\* answers 200 and leaves exactly one UserFeedback row for the build job,
\* with the feedback type and notes of that submission; the rows of other
\* build jobs are kept.
C17_LastSubmissionWins == [][C17_Step]_vars

\* The row of b1 was stored by one submission and overwritten by a later one.
C17_Witness ==
    /\ response.op = "submit_feedback"
    /\ response.code = 200
    /\ response.build = "b1"
    /\ \E row \in feedback :
        /\ FeedbackOf(feedback, "b1") = {row}
        /\ row.updated
        /\ row.feedback_type = response.request[1]
        /\ row.notes = response.request[2]

\* C18: in every reachable state, under any interleaving of concurrent
\* feedback submissions, at most one UserFeedback row exists per build job.
C18_OneFeedbackPerJob ==
    \A x, y \in feedback : x.build_job_id = y.build_job_id => x = y

(***************************************************************************)
(* Claims about access.                                                    *)
(***************************************************************************)
TaskOps ==
    {"get_task", "update_task", "delete_task", "pause_task", "resume_task",
     "get_candidates", "select_candidates", "get_task_iterations",
     "get_task_builds", "trigger_builds"}

BuildOps == {"get_build_status", "submit_feedback", "get_build_logs", "cancel_build"}

\* The caller of the request just served owns no row of the id it addressed:
\* the row is another user's or there is none.
NotOwnerRequest ==
    \/ /\ response'.op \in TaskOps
       /\ ~TaskOwnedBy(response'.user, response'.task)
    \/ /\ response'.op \in BuildOps
       /\ ~\E j \in build_jobs :
             j.id = response'.build /\ JobOwnedBy(j, response'.user)

\* The answer to such a request, computed from the request alone.
NotFoundAnswer ==
    IF response'.op \in BuildOps
    THEN BuildReply(response'.op, response'.user, response'.build, 404)
    ELSE Reply(response'.op, response'.user, response'.task, response'.n,
               IF response'.op = "select_candidates"
                  /\ ~SchemaAcceptsSelection(response'.n)
               THEN 422 ELSE 404,
               NoBody)

C19_Step ==
    NotOwnerRequest =>
        /\ response' = NotFoundAnswer
        /\ tasks' = tasks
        /\ iterations' = iterations
        /\ sessions' = sessions
        /\ build_jobs' = build_jobs
        /\ feedback' = feedback

AsIssued(tok) == tok.signature = Sign(SecretKey, tok.payload)

Accepted == verified.result # None

C20_Rejections ==
    /\ verified.result \in {None, [username |-> verified.token.payload.sub]}
    /\ ~AsIssued(verified.token) => ~Accepted
    /\ (AsIssued(verified.token) /\ verified.token.payload.type # verified.token_type)
          => ~Accepted

\* C20 as stated: an issued token is accepted for its own type whatever its
\* claims and whenever it is verified.
C20_Original_TokenTypes ==
    verified # NoVerification =>
        /\ C20_Rejections
        /\ (AsIssued(verified.token)
            /\ verified.token.payload.type = verified.token_type) => Accepted

\* C20: a token issued by create_access_token with a "sub" claim is accepted
\* by verify_token for type 'access' until its expiry and rejected for
\* 'refresh'; one issued by create_refresh_token with a "sub" claim is
\* accepted for 'refresh' until its expiry and rejected for 'access'; a token
\* issued without "sub", verified after its expiry, or altered after it was
\* signed is rejected for both types; rejection is a None result, never an
\* exception.
C20_TokenTypes ==
    verified # NoVerification =>
        /\ C20_Rejections
        /\ (AsIssued(verified.token)
            /\ verified.token.payload.type = verified.token_type)
              => (Accepted <=> (/\ verified.token.payload.sub # NULL
                                /\ verified.token.payload.exp >= verified.at))

\* An access token with a subject, verified as 'access' before its expiry.
C20_Witness ==
    /\ verified.token_type = "access"
    /\ AsIssued(verified.token)
    /\ verified.token.payload.type = "access"
    /\ verified.token.payload.exp >= verified.at
    /\ verified.result = [username |-> "alice"]

(***************************************************************************)
(* Claims about the authenticated-user guard.                              *)
(***************************************************************************)
\* The token the guard was given verifies as an access token now.
TokenVerifies ==
    /\ AsIssued(token)
    /\ token.payload.type = "access"
    /\ token.payload.sub # NULL
    /\ token.payload.exp >= now

SubjectRows == {x \in users : x.username = token.payload.sub}

GuardStep == response'.op = "get_current_user" /\ users' = users /\ authVars' = authVars

C21_Step ==
    GuardStep =>
        /\ ~TokenVerifies => response'.code = 401
        /\ (TokenVerifies /\ SubjectRows = {}) => response'.code = 401
        /\ (TokenVerifies /\ \E x \in SubjectRows : ~x.is_active)
              => response'.code = 401
        /\ response'.code = 200 =>
              /\ TokenVerifies
              /\ \E x \in SubjectRows : x.is_active /\ response'.rows = {x}

\* C21: get_current_user answers 401 (unauthenticated) when the token does
\* not verify, when no user has the token's subject and when the user is
\* inactive, and returns a user only when the token verifies and the user
\* exists and is active.
C21_GuardRejects == [][C21_Step]_vars

(***************************************************************************)
(* Claims about registration.                                              *)
(***************************************************************************)
\* A step in which register_user answers: at the existence check, or at the
\* commit of a request that passed it.
RegisterAnswered ==
    /\ response'.op = "register_user"
    /\ inflight' \subseteq inflight

C22_Step ==
    RegisterAnswered =>
        LET email == response'.request[1]
            username == response'.request[2]
        IN  IF ExistingUsers(email, username) # {}
            THEN response'.code = Conflict /\ users' = users
            ELSE /\ response'.code = Created
                 /\ users' = users \cup {UserRow(username, email, TRUE)}

\* C22: no two users ever share an email or a username, and a registration
\* whose email or username is taken when it is answered is rejected as a
\* conflict (400) and creates no user, also when registrations overlap.
C22_Registrations == [](uq_users(users)) /\ [][C22_Step]_vars

(***************************************************************************)
(* Claims about projects.                                                  *)
(***************************************************************************)
CreateProjectStep == response'.op = "create_project"

C23_Step ==
    CreateProjectStep =>
        LET u == response'.user
            name == response'.request[1]
            repository_url == response'.request[2]
            default_branch == response'.request[3]
        IN  /\ (response'.code # Created)
                  <=> ExistingProjects(u, name, repository_url) # {}
            /\ response'.code = Created =>
                  \E p \in projects' \ projects :
                      /\ p.name = name /\ p.repository_url = repository_url
                      /\ p.created_by = u
                      /\ NewBranch(p.id, default_branch) \in branches'
            /\ response'.code # Created => UNCHANGED projectVars

\* C23: create_project is rejected exactly when the same user already owns
\* a project with the same name and repository URL (another owner's project
\* with that pair does not prevent the creation), and every successful
\* creation leaves the new project with a branch named after default_branch.
C23_CreateProject == [][C23_Step]_vars

(***************************************************************************)
(* Claims about tag import.                                                *)
(***************************************************************************)
\* An import_tags call on a project and branch of the caller.
ImportStep ==
    /\ response'.op = "import_tags"
    /\ OwnedProject(response'.user, response'.request[1])
    /\ BranchOfProject(response'.request[2], response'.request[1])

C24_Step ==
    ImportStep =>
        LET project_id == response'.request[1]
            branch_id == response'.request[2]
            tags_data == response'.request[3]
            known == {i \in DOMAIN tags_data :
                         TagsNamed(tags_data[i], project_id, branch_id) # {}}
        IN  /\ response'.code = 200
            /\ tags \subseteq tags'
            /\ response'.body.skipped_count >= Cardinality(known)
            /\ response'.body.imported_count = Cardinality(tags' \ tags)
            /\ response'.body.imported_count + response'.body.skipped_count
                  = Len(tags_data)

\* C24: an import_tags call on the caller's project and branch succeeds
\* whatever the batch holds: descriptors whose name exists for the project
\* and branch are skipped, a name repeated in the batch or used on another
\* branch of the project does not fail the call, the imported count is the
\* number of rows added and imported + skipped is the batch size.
C24_ImportTags == [][C24_Step]_vars

(***************************************************************************)
(* Claims about task deletion.                                             *)
(***************************************************************************)
\* The rows of a table that belong to a task.
RowsOfTask(rows, task_id) == {x \in rows : x.task_id = task_id}

C25_Step ==
    response'.op = "delete_task" =>
        /\ response'.code \in {200, 404}
        /\ response'.code = 200 =>
              /\ \A tk \in tasks' : tk.id # response'.task
              /\ RowsOfTask(iterations', response'.task) = {}
              /\ RowsOfTask(sessions', response'.task) = {}
              /\ RowsOfTask(build_jobs', response'.task) = {}
              /\ RowsOfTask(feedback', response'.task) = {}
        /\ response'.code = 404 => UNCHANGED dbVars

\* C25: after a delete_task that succeeds, the task and every TaskIteration,
\* TaskSession, BuildJob and UserFeedback of it are gone; a delete_task
\* answered not-found removes nothing.
C25_DeleteCascades == [][C25_Step]_vars

\* Task t1 deleted, with its session, iteration, job and feedback, while
\* task t2 keeps its own, feedback included.
C25_Witness ==
    /\ response.op = "delete_task" /\ response.code = 200 /\ response.task = "t1"
    /\ {tk.id : tk \in tasks} = {"t2"}
    /\ RowsOfTask(iterations, "t2") # {} /\ RowsOfTask(sessions, "t2") # {}
    /\ RowsOfTask(build_jobs, "t2") # {} /\ RowsOfTask(feedback, "t2") # {}
    /\ RowsOfTask(feedback, "t1") = {} /\ RowsOfTask(build_jobs, "t1") = {}

(***************************************************************************)
(* Claims about the WebSocket registry.                                    *)
(***************************************************************************)
\* A connection is in active_connections[u] iff connection_info holds it
\* with user_id u.
MapsAgree ==
    \A websocket \in Sockets, u \in WsUsers :
        (u \in DOMAIN active_connections /\ websocket \in active_connections[u])
           <=> (/\ websocket \in InfoKeys(connection_info)
                /\ InfoOf(connection_info, websocket).user_id = u)

NoEmptySet == \A u \in DOMAIN active_connections : active_connections[u] # {}

CountIsEntries == get_connection_count(active_connections) = Len(connection_info)

\* A disconnect call: the connection is in neither dict afterwards, and
\* nothing changes when it was in none before.
C26_Disconnect ==
    (finished'.kind = "disconnect" /\ sends' = sends /\ ws_state' = ws_state) =>
        /\ finished'.ws \notin InfoKeys(connection_info')
        /\ \A u \in DOMAIN active_connections' :
              finished'.ws \notin active_connections'[u]
        /\ finished'.ws \notin InfoKeys(connection_info)
              => UNCHANGED <<active_connections, connection_info>>

\* C26: in every state of the ConnectionManager a connection is in
\* active_connections[u] iff it has a connection_info entry with user_id u,
\* no user maps to an empty set and get_connection_count is the number of
\* connection_info entries; disconnect removes the connection from both
\* dicts and changes nothing for a connection the manager does not know.
C26_Registry ==
    /\ [](MapsAgree /\ NoEmptySet /\ CountIsEntries)
    /\ [][C26_Disconnect]_vars

\* A disconnect of an accepted connection has returned; one connection of
\* one user is left in the registry.
C26_Witness ==
    /\ finished.kind = "disconnect"
    /\ finished.ws \in Sockets
    /\ ws_state[finished.ws] # "new"
    /\ Len(connection_info) = 1
    /\ Cardinality(DOMAIN active_connections) = 1

\* A send_personal_message or broadcast_to_subscribed call ends.
SendEnds ==
    /\ finished'.kind \in {"send_personal_message", "broadcast_to_subscribed"}
    /\ (sends' # sends \/ finished' # finished)
    /\ sends' \subseteq sends

C27_Step ==
    SendEnds =>
        /\ finished'.outcome = "returned"
        /\ finished'.targeted \subseteq finished'.delivered \cup finished'.dead
        /\ \A connection \in finished'.dead :
              connection \notin InfoKeys(connection_info')

\* C27: send_personal_message and broadcast_to_subscribed always return to
\* their caller, every connection they set out to reach either got the
\* message or failed, and the failed ones are out of the registry, also
\* when connections are registered or removed while a send is suspended.
C27_SendsNeverRaise == [][C27_Step]_vars

\* handle_websocket_message ran for a message of a registered connection
\* whose client is there.
MessageHandled ==
    /\ finished'.kind = "handle_websocket_message"
    /\ sends' = sends /\ ws_state' = ws_state
    /\ finished'.ws \in InfoKeys(connection_info)
    /\ ws_state[finished'.ws] = "open"

\* The subscriptions of a connection, and the entries of the others.
SubscriptionsOf(info, websocket) == InfoOf(info, websocket).subscriptions

OtherEntries(info, websocket) == SelectSeq(info, LAMBDA e : e.ws # websocket)

C28_Step ==
    MessageHandled =>
        LET websocket == finished'.ws
            message == finished'.message
            before == SubscriptionsOf(connection_info, websocket)
            after == SubscriptionsOf(connection_info', websocket)
        IN  /\ Len(finished'.replies) = 1
            /\ OtherEntries(connection_info', websocket)
                  = OtherEntries(connection_info, websocket)
            /\ (message.type = "subscribe" /\ message.key # NULL) =>
                  /\ after = before \cup {message.key}
                  /\ finished'.replies[1].type = "subscription_confirmed"
                  /\ finished'.replies[1].key = message.key
            /\ (message.type = "unsubscribe" /\ message.key # NULL) =>
                  /\ after = before \ {message.key}
                  /\ finished'.replies[1].type = "unsubscription_confirmed"
                  /\ finished'.replies[1].key = message.key
            /\ message.type = "ping" =>
                  /\ finished'.replies[1].type = "pong"
                  /\ finished'.replies[1].timestamp = message.timestamp
                  /\ after = before
            /\ message.type \notin {"subscribe", "unsubscribe", "ping"} =>
                  /\ finished'.replies[1].type = "error"
                  /\ after = before

\* C28: every inbound message of a connection gets exactly one reply on that
\* connection: subscribe and unsubscribe with a key change the sender's
\* subscriptions only and are confirmed, ping is answered with pong and the
\* same timestamp, any other type with an error and no subscription change.
C28_OneReply == [][C28_Step]_vars

(***************************************************************************)
(* Claims about run_build.                                                 *)
(***************************************************************************)
\* C29: run_build runs at most 4 times for a build job (3 retries), retry k
\* (k = 0, 1, 2) is scheduled 60 * 2^k seconds ahead, and a job whose task
\* waits for a retry is not in status failed: failed is recorded only when
\* the task gives up.
C29_RetryPolicy ==
    \A j \in RunJobs :
        /\ build_runs[j].executions <= 4
        /\ build_runs[j].retries <= 3
        /\ build_runs[j].phase = "waiting" =>
              /\ build_runs[j].delay = 60 * (2 ^ (build_runs[j].retries - 1))
              /\ build_runs[j].status # "failed"

(***************************************************************************)
(* Claims about database sessions.                                         *)
(***************************************************************************)
\* The async context committed once on a normal exit and rolled back once
\* when the body raised.
ContextSettles(session) ==
    (session.kind = "get_async_db_context" /\ session.phase = "finished") =>
        /\ session.outcome = "returned" => session.commits = 1 /\ session.rollbacks = 0
        /\ session.outcome = "raised" => session.rollbacks = 1 /\ session.commits = 0

\* C30: a session handed out by get_database is not closed while its request
\* runs and has been closed exactly once, holding no transaction, when the
\* request has finished, whether it returned or raised; get_async_db_context
\* commits on a normal exit and rolls back when the body raises.
C30_SessionScope ==
    \A r \in Requests :
        /\ db_sessions[r].kind = "get_database" =>
              /\ db_sessions[r].phase = "handling" => db_sessions[r].closes = 0
              /\ db_sessions[r].phase = "finished" =>
                    /\ db_sessions[r].closes = 1
                    /\ ~db_sessions[r].in_transaction
        /\ ContextSettles(db_sessions[r])

(***************************************************************************)
(* Claims about the encryption service.                                    *)
(***************************************************************************)
Encodable(chars) == \A i \in 1..Len(chars) : ~IsSurrogate(chars[i])

\* A dict json.loads can return: str keys, no tuples.
JsonShaped(data) ==
    \A i \in 1..Len(data) :
        data[i].key.type = "str" /\ data[i].value.type # "tuple"

SameKey == EncryptionService(crypto.master_key) = EncryptionService(crypto.other_key)

RegisterUserStep == signup' # signup \/ response' # response

Weak(v) == v.length < 8 \/ v.digits = 0 \/ v.uppers = 0

\* The step of RegisterUser on the password signup' records.
C32_Step ==
    LET password == signup'.password IN
        /\ (Weak(password) \/ password.length > max_length) =>
              /\ signup'.error # "none"
              /\ response'.code = Unprocessable
              /\ users' = users
        /\ (~Weak(password) /\ password.length <= max_length) =>
              /\ signup'.error = "none"
              /\ \/ response'.code = Conflict /\ users' = users
                 \/ /\ response'.code = Created
                    /\ Cardinality(users') = Cardinality(users) + 1

\* C32 (corrected): a registration whose password is shorter than 8
\* characters, has no digit, has no uppercase letter or is longer than 128
\* characters is answered 422 and creates no user; a password of 8 to 128
\* characters with a digit and an uppercase letter passes validation, and
\* the registration creates the user unless the email or the username is
\* taken.
C32_PasswordRule == [][RegisterUserStep => C32_Step]_vars

C32_Original_Step ==
    LET password == signup'.password IN
        /\ Weak(password) =>
              response'.code = Unprocessable /\ users' = users
        /\ ~Weak(password) => signup'.error = "none"

\* C32 as stated: the three rules reject, and every password of at least 8
\* characters with a digit and an uppercase letter is accepted.
C32_Original_PasswordRule == [][RegisterUserStep => C32_Original_Step]_vars

\* Str0ngPass passed validation and the registration was stored.
C32_Witness ==
    /\ signup.password = Password(10, 1, 2)
    /\ signup.error = "none"
    /\ response.op = "register_user" /\ response.code = Created
    /\ users # {}

(***************************************************************************)
(* Claims about tasks that are not active.                                 *)
(***************************************************************************)
SearchRequests == {"get_candidates", "select_candidates", "trigger_builds"}

\* What the search of a task has stored.
SearchState(task_id) ==
    [task |-> {[current_iteration |-> tk.current_iteration,
                final_problematic_tag_id |-> tk.final_problematic_tag_id] :
                  tk \in {x \in tasks : x.id = task_id}},
     sessions |-> SessionsOf(task_id),
     iterations |-> {it \in iterations : it.task_id = task_id},
     build_jobs |-> {j \in build_jobs : j.task_id = task_id}]

\* A response of one of the three requests for a task that is not active.
C33_Step ==
    \A tk \in tasks :
        (/\ tk.status \in TaskStatuses \ {"active"}
         /\ response' # response
         /\ response'.op \in SearchRequests
         /\ response'.task = tk.id) =>
            /\ response'.code = 400
            /\ SearchState(tk.id)' = SearchState(tk.id)

\* C33: while a task is paused, completed or failed, candidate retrieval,
\* select-candidates and build triggering are rejected and none of them
\* creates an iteration or a build job or changes the task's
\* current_iteration, final problematic tag or stored range.
C33_NotActiveIsTerminal == [][C33_Step]_vars

(***************************************************************************)
(* Claims about the tag a completed task names.                            *)
(***************************************************************************)
\* The tags that received this verdict in the task's feedback.
TagsJudged(task, verdict) ==
    {x.tag_id : x \in {y \in feedback : y.task_id = task.id /\
                                        y.feedback_type = verdict}}

\* The tags of the task's branch directly before the tag in sequence order.
DirectlyBefore(task, tag) ==
    LET branch == {tg \in tags : /\ tg.project_id = task.project_id
                                 /\ tg.branch_id = task.branch_id
                                 /\ tg.sequence_number # NoSeq}
        before == {tg \in branch : tg.sequence_number < tag.sequence_number}
    IN  {tg \in before :
            \A other \in before : other.sequence_number <= tg.sequence_number}

\* C34: the final problematic tag of a completed task is its bad tag or a
\* tag judged broken, and the tag directly before it in sequence order is
\* its good tag or a tag judged working, also after tags were imported into
\* the branch.
C34_FirstBadVersion ==
    \A tk \in tasks :
        tk.status = "completed" =>
            /\ \/ tk.final_problematic_tag_id = tk.bad_tag_id
               \/ tk.final_problematic_tag_id \in TagsJudged(tk, "broken")
            /\ \E tg \in DirectlyBefore(tk, TagRow(tk.final_problematic_tag_id)) :
                  \/ tg.id = tk.good_tag_id
                  \/ tg.id \in TagsJudged(tk, "working")

(***************************************************************************)
(* Claims about the sequence numbers of a branch.                          *)
(***************************************************************************)
\* C36: after any sequence of import_tags calls no two tags of one project
\* and branch have the same sequence number, so that ordering the branch's
\* tags by sequence number is a total order.
C36_SequenceNumbersDistinct ==
    \A x, y \in tags :
        (/\ x.project_id = y.project_id
         /\ x.branch_id = y.branch_id
         /\ x.sequence_number = y.sequence_number) => x = y

(***************************************************************************)
(* Claims about the session create_task stores.                            *)
(***************************************************************************)
\* The in-range tag lists of a task, as get_binary_search_candidates
\* queries them.
RangeLists(task) ==
    OrderedBySeq(TagsInRange(task.project_id, task.branch_id,
                             TagRow(task.good_tag_id).sequence_number,
                             TagRow(task.bad_tag_id).sequence_number))

\* The task a create_task call has stored and its session.
SeededRange(tk) ==
    /\ tk.total_tags_in_range >= 2
    /\ \E s \in sessions :
          /\ \A x \in sessions : x.task_id = tk.id => x = s
          /\ s.task_id = tk.id
          /\ s.current_range_start = 0
          /\ s.current_range_end = tk.total_tags_in_range - 1
          /\ s.current_range_end > 0
          /\ \A order \in RangeLists(tk) :
                /\ Len(order) = tk.total_tags_in_range
                /\ order[s.current_range_start + 1].id = tk.good_tag_id
                /\ order[s.current_range_end + 1].id = tk.bad_tag_id

C35_Step ==
    (response'.op = "create_task" /\ response'.code = 201) =>
        \A tk \in tasks' \ tasks : SeededRange(tk)'

\* C35: a task accepted by create_task has total_tags_in_range >= 2 and,
\* when the call returns, exactly one session with range 0 to
\* total_tags_in_range - 1 > 0, the positions of the good and the bad tag
\* in the in-range tags ordered by sequence number, also when the good or
\* the bad tag has no sequence number.
C35_InitialSession == [][C35_Step]_vars

(***************************************************************************)
(* Claims about the iteration counter.                                     *)
(***************************************************************************)
\* The largest iteration_number among the iterations of a task, 0 when it
\* has none.
LargestNumber(task_id) ==
    IF IterationsOf(task_id) = {} THEN 0
    ELSE CHOOSE n \in {it.iteration_number : it \in IterationsOf(task_id)} :
            \A it \in IterationsOf(task_id) : it.iteration_number <= n

\* C37: in every reachable state, under any interleaving of
\* select-candidates requests, a task's current_iteration equals the number
\* of TaskIteration rows stored for the task and equals the largest
\* iteration_number among them (0 when there are none).
C37_CounterMatchesRows ==
    \A tk \in tasks :
        /\ tk.current_iteration = Cardinality(IterationsOf(tk.id))
        /\ tk.current_iteration = LargestNumber(tk.id)

\* Two requests have read the same task row; one has committed and the
\* other has not yet.
C37_Witness ==
    /\ response.op = "select_candidates"
    /\ response.code \in {200, 500}
    /\ \E r \in inflight :
          /\ r.op = "select_candidates"
          /\ r.task.id = response.task
          /\ r.task.current_iteration + 1 = response.request[1]

(***************************************************************************)
(* Claims about what candidate retrieval leaves alone.                     *)
(***************************************************************************)
\* A response of candidate retrieval that carries candidates.
Retrieved(r) ==
    /\ r.op = "get_candidates"
    /\ r.code = 200
    /\ ~r.body.is_complete

C38_Step ==
    response'.op = "get_candidates" =>
        \A tk \in Addressed :
            (/\ tk.status = "active"
             /\ StoredRange(tk.id) # {}
             /\ ~AdjacentStored(tk.id)) =>
                /\ dbVars' = dbVars
                /\ response'.code = 200 =>
                      /\ Retrieved(response')
                      /\ response'.body.iteration_number = tk.current_iteration + 1
                      /\ \A n \in MinSelection..MaxSelection :
                            NewIteration("i1", tk, n).iteration_number
                                = response'.body.iteration_number
                /\ (/\ Retrieved(response)
                    /\ response.task = response'.task
                    /\ response.user = response'.user) =>
                      /\ Retrieved(response')
                      /\ Positions(response'.body) = Positions(response.body)

\* C38: candidate retrieval on an active, initialised task whose stored
\* range is not adjacent changes no persisted state (status,
\* current_iteration, final problematic tag, stored range, iterations); two
\* retrievals with no write in between return the same candidate positions;
\* and the returned iteration_number is current_iteration + 1, the number
\* the next select-candidates call assigns.
C38_RetrievalReadsOnly == [][C38_Step]_vars

\* A retrieval has returned candidates for a task with a stored range.
C38_Witness ==
    /\ Retrieved(response)
    /\ response.body.candidates # <<>>
    /\ \E tk \in tasks :
          /\ tk.id = response.task
          /\ tk.status = "active"
          /\ response.body.iteration_number = tk.current_iteration + 1
          /\ StoredRange(tk.id) # {}

(***************************************************************************)
(* Claims about the update messages.                                       *)
(***************************************************************************)
\* How many times the call's message was delivered on the connection.
Copies(websocket) ==
    Cardinality({i \in DOMAIN update.received : update.received[i] = websocket})

\* C39: for each send_task_update, send_build_update or send_progress_update
\* call every live connection receives the message at most once: a
\* connection of the owning user that is also subscribed to the task's key
\* is not sent the message twice, and a connection that neither belongs to
\* the owning user nor is subscribed to the task's key receives nothing.
C39_AtMostOnce ==
    \A websocket \in Sockets :
        /\ Copies(websocket) <= 1
        /\ websocket \notin update.personal \cup update.subscribed
              => Copies(websocket) = 0

(***************************************************************************)
(* Claims about the git tasks.                                             *)
(***************************************************************************)
\* The last run of the body failed: an exception, or a git command that
\* exited non-zero.
GitFailed(run) == run.outcome \in {"raised", "command_failed"}

\* At most limit retries, retry n delayed by base * 2^n seconds (n counted
\* from 0), at most limit + 1 runs of the body.
RetriedWithBackoff(run, limit, base) ==
    /\ run.retries <= limit
    /\ Len(run.delays) = run.retries
    /\ \A k \in DOMAIN run.delays : run.delays[k] = base * (2 ^ (k - 1))
    /\ run.executions <= limit + 1

\* C40: fetch_commit_list is retried at most 3 times after a failure, with
\* a delay of 60 * 2^n seconds before retry n, and surfaces the failure once
\* retries are exhausted; validate_commit is retried at most 2 times, with a
\* delay of 30 * 2^n seconds, and once retries are exhausted returns a
\* result with valid = false instead of raising; get_commit_diff and
\* analyze_repository are never retried and report failure in their return
\* value; every one of these tasks stops after finitely many executions.
C40_RetriesAndFailures ==
    /\ LET run == git_runs["fetch_commit_list"]
       IN  /\ RetriedWithBackoff(run, 3, 60)
           /\ (run.status = "done" /\ GitFailed(run)) =>
                 (run.retries = 3 /\ run.result = "raised")
           /\ (run.status = "queued" /\ GitFailed(run)) => run.countdown <= 240
    /\ LET run == git_runs["validate_commit"]
       IN  /\ RetriedWithBackoff(run, 2, 30)
           /\ run.result # "raised"
           /\ (run.status = "done" /\ GitFailed(run)) =>
                 (run.retries = 2 /\ run.result = "not_valid")
    /\ \A name \in {"get_commit_diff", "analyze_repository"} :
          LET run == git_runs[name]
          IN  /\ RetriedWithBackoff(run, 0, 0)
              /\ run.result # "raised"
              /\ (run.status = "done" /\ GitFailed(run)) =>
                    run.result = "success_false"
====
